---- MODULE Spec2Model ----
(***************************************************************************)
(* Tick-indexed replay engine: the segmented Recorder (src/src/recoder.ts, *)
(* the class with the Idle/Recording/Paused state machine) and the         *)
(* Replayer (src/src/replayer.ts).                                         *)
(*                                                                         *)
(* Both classes are asynchronous: a method runs synchronously up to its    *)
(* first await, and what follows the await runs later.  A call in flight   *)
(* is a record of the sequence rtasks (recorder) or tasks (replayer); the  *)
(* action that resumes it models the code from that await to the next.     *)
(* An await on an already settled promise resumes in a microtask: such     *)
(* continuations run in FIFO order and before any timer or I/O completion, *)
(* but the caller's own back-to-back calls still come before them.         *)
(***************************************************************************)
EXTENDS Integers, Sequences, FiniteSets, TLC

VARIABLES
  \* ---- the data directory (shared by recorder and replayer)
  files,            \* segment_<k>.dat: segment index -> packed segment record
  header,           \* header.json: [exists, tickRate, segmentSize, totalTicks]
  \* ---- Recorder fields
  recState,         \* Recorder.state
  currentSegment,   \* Recorder.currentSegment: a Map, entries in insertion order
  segmentIndex,     \* Recorder.segmentIndex
  pausedData,       \* Recorder.pausedData: [defined, lastTick]
  rtasks,           \* recorder calls suspended at an await
  \* ---- recorder observation (history) variables
  rcalls,           \* number of recorder calls made so far
  nrec,             \* number of record calls accepted so far (payloads are numbered)
  acked,            \* tick -> payload of the latest record call that resolved, this session
  recorded,         \* ticks stored by record calls of this session
  rev,              \* the last recorder event: [op, res, err]
  failed,           \* the segment writes that failed this session: [count, idx, data]
  \* ---- Replayer fields
  meta,             \* Replayer.meta (exists = FALSE until init has read the header)
  loadedSegments,   \* Replayer.loadedSegments: segment index -> (tick -> payload)
  currentTimer,     \* Replayer.currentTimer: [set, pending, due]
  orphans,          \* due times of pending timers currentTimer no longer refers to
  currentTick,      \* Replayer.currentTick
  state,            \* Replayer.state
  lastPlayedTickMeta, \* Replayer.lastPlayedTickMeta: [defined, tick, time, segmentIndex]
  currentSpeed,     \* Replayer.currentSpeed, in tenths
  playStartTime,    \* Replayer.playStartTime
  pausedDuration,   \* Replayer.pausedDuration
  pauseStartTime,   \* Replayer.pauseStartTime
  tasks,            \* replayer calls suspended at an await
  now,              \* performance.now(), in ms
  \* ---- replayer observation (history) variables
  pcalls,           \* number of replayer calls made by the caller so far
  delivered,        \* ticks passed to onTick since the caller's last call
  ended,            \* onEnd since the caller's last call: [count, tick]
  pev,              \* the caller's last call: [op, res, overlap]
  settled,          \* the last promise settled since the caller's last call
  session,          \* the playing session: [start, paused], the time of the play
                    \* that began it and the sum of its paused intervals
  rangeData,        \* the entries the last getRangeData resolved with
  \* ---- the event log recorder (utils/recorder.ts) and the vehicle
  \* ---- recording maps (replay.ts)
  pr,               \* the PlayerRecorder object: its fields, its stream and
                    \* timers, and the observation of accepted and written events
  vr                \* replay.ts: the recording and pause maps, the players'
                    \* seats, the start calls in flight and the last call

recVars == <<recState, currentSegment, segmentIndex, pausedData, rtasks,
             rcalls, nrec, acked, recorded, rev, failed>>
dirVars == <<files, header>>
repVars == <<meta, loadedSegments, currentTimer, orphans, currentTick, state,
             lastPlayedTickMeta, currentSpeed, playStartTime, pausedDuration,
             pauseStartTime, tasks, now, pcalls, delivered, ended, pev, settled,
             session, rangeData>>
appVars == <<pr, vr>>
vars == <<files, header, recState, currentSegment, segmentIndex, pausedData, rtasks,
          rcalls, nrec, acked, recorded, rev, failed,
          meta, loadedSegments, currentTimer, orphans, currentTick, state,
          lastPlayedTickMeta, currentSpeed, playStartTime, pausedDuration,
          pauseStartTime, tasks, now, pcalls, delivered, ended, pev, settled,
          session, rangeData, pr, vr>>

----------------------------------------------------------------------------
(* Bounds of the model *)

\* config.segmentSize of the Recorder under test (ticks per segment)
SegmentSize == 2
\* ticks a caller passes to record are drawn from 0..MaxTick
MaxTick == 2
\* number of recorder method calls in one behaviour
MaxCalls == 5

\* config.tickRate of the Recorder under test
TickRates == {500, 1000}
\* options.speed given to the Replayer's constructor, in tenths (0: not given)
SpeedOptions == {0}
\* number of ticks 0..n-1 in the recording a replayer is given: n \in 1..MaxLen
MaxLen == 4
\* number of replayer method calls the caller makes in one behaviour
MaxReplayCalls == 3
\* the clock runs from 0 to MaxTime ms
MaxTime == 4
\* arguments the caller passes to seek, stepForward/stepBackward and setSpeed
SeekTargets == {-1, 1, MaxLen}
StepSizes == {1}
\* times (ms) given to seekToTime
SeekTimes == {0, 1, 3}
\* ends of the tick ranges given to getRangeData
RangeEnds == {-1, 2, MaxLen}
SpeedInputs == {20}
\* speeds (in tenths) given to the constructor and to setSpeed where the speed
\* range is checked: below the range, not given / zero, inside, above
SpeedValues == {-10, 0, 5, 20, 200}
\* number of segment files of the long recording the segment cache is checked on
CacheSegments == 5

\* ---- utils/recorder.ts: times are in units of 500 ms
\* the constructor's defaults: flushInterval 3 s, newFileInterval 30 s
DefaultFlushInterval == 6
DefaultNewFileInterval == 60
\* options the caller passes to the PlayerRecorder constructor
FlushIntervals == {1, 2}
NewFileIntervals == {0, 2, 3}
\* recordEvent is offered the events 1..MaxEvents
MaxEvents == 2
\* start, pause, resume and stop are called at most MaxPrCalls times together
MaxPrCalls == 4
\* the PlayerRecorder's clock runs from 0 to MaxPrTime
MaxPrTime == 4

\* ---- replay.ts: the players and the vehicle ids of the server
Players == {"p1", "p2"}
VehicleIds == {1, 2}
NoPlayer == "none"
\* the vehicle id that stands for null: the ids of vehicles start at 1
NoVeh == 0
\* at most MaxStarts calls of startRecordVehData are in flight at a time
MaxStarts == 1

----------------------------------------------------------------------------
(* Helpers *)

Max(S) == CHOOSE x \in S : \A y \in S : y <= x
Min(S) == CHOOSE x \in S : \A y \in S : x <= y

RemoveAt(s, i) == [j \in 1..(Len(s) - 1) |-> IF j < i THEN s[j] ELSE s[j + 1]]

\* String(n) for a non-negative integer: its decimal digits
RECURSIVE ToStr(_)
ToStr(n) == IF n < 10 THEN <<n>> ELSE Append(ToStr(n \div 10), n % 10)

\* parseInt(s) for a string of decimal digits
RECURSIVE parseInt(_)
parseInt(s) ==
  IF Len(s) = 0 THEN 0
  ELSE 10 * parseInt(SubSeq(s, 1, Len(s) - 1)) + s[Len(s)]

\* Map.prototype.set: an existing key keeps its place, a new key goes last
MapSet(m, k, v) ==
  IF \E i \in 1..Len(m) : m[i].k = k
  THEN [i \in 1..Len(m) |-> IF m[i].k = k THEN [k |-> k, v |-> v] ELSE m[i]]
  ELSE Append(m, [k |-> k, v |-> v])

MapKeys(m) == {m[i].k : i \in 1..Len(m)}

\* Object.fromEntries(map): property names are the keys as strings
ObjectFromEntries(m) ==
  [s \in {ToStr(m[i].k) : i \in 1..Len(m)} |->
     LET i == Max({j \in 1..Len(m) : ToStr(m[j].k) = s}) IN m[i].v]

NoHeader == [exists |-> FALSE, tickRate |-> 0, segmentSize |-> 0, totalTicks |-> 0]
NoSnap == [firstTick |-> 0, lastTick |-> 0, data |-> <<>>]
NoFailure == [count |-> 0, idx |-> 0, data |-> <<>>]

RTask(op, pc, micro, idx, snap, hdr, tick, val) ==
  [op |-> op, pc |-> pc, micro |-> micro, idx |-> idx, snap |-> snap,
   meta |-> hdr, tick |-> tick, val |-> val]

Ev(op, res, err) == [op |-> op, res |-> res, err |-> err]

\* the microtask queue is FIFO; timers and I/O wait until it is empty
HasMicro(q) == \E i \in 1..Len(q) : q[i].micro
FirstMicro(q) == Min({i \in 1..Len(q) : q[i].micro})
Runnable(q, i) ==
  /\ i \in 1..Len(q)
  /\ IF q[i].micro THEN i = FirstMicro(q) ELSE ~HasMicro(q)

----------------------------------------------------------------------------
(* Recorder *)

\* the state each method requires at the moment it is called
StartAllowed(s) == s = "idle"
PauseAllowed(s) == s = "recording"
ResumeAllowed(s) == s = "paused"
\* (mutant: record also accepted while Paused)
RecordAllowedPaused(s) == s # "idle"
RecordAllowed(s) == s = "recording"
StopAllowed(s) == s # "idle"

\* record's tick order check against pausedData.lastTick
TickSequenceOk(pd, tick) == ~(pd.defined /\ tick <= pd.lastTick)

\* record's flush trigger
FlushTrigger(seg) == Len(seg) >= SegmentSize

\* flushSegment up to its await: the packed segment handed to fs.writeFile
SegmentData(seg) ==
  [firstTick |-> Min(MapKeys(seg)), lastTick |-> Max(MapKeys(seg)),
   data |-> ObjectFromEntries(seg)]

\* a method that awaits flushSegment: suspended on the write, or (empty buffer)
\* on the promise flushSegment returned at once
FlushTask(op, seg, tick, val) ==
  IF Len(seg) = 0
  THEN RTask(op, "flush", TRUE, segmentIndex, NoSnap, NoHeader, tick, val)
  ELSE RTask(op, "flush", FALSE, segmentIndex, SegmentData(seg), NoHeader, tick, val)

\* flushSegment after its await: the file is written, the buffer cleared,
\* the index advanced
WriteFile(fs, idx, snap) ==
  [k \in DOMAIN fs \cup {idx} |-> IF k = idx THEN snap ELSE fs[k]]
FilesAfter(t) == IF t.micro THEN files ELSE WriteFile(files, t.idx, t.snap)
SegmentAfter(t) == IF t.micro THEN currentSegment ELSE <<>>
IndexAfter(t) == IF t.micro THEN segmentIndex ELSE segmentIndex + 1

\* stop's totalTicks
TotalTicks(index, seg) == index * SegmentSize + Len(seg)

\* pause's pausedData.lastTick: Array.from(keys()).pop()
LastKey(seg) ==
  IF Len(seg) = 0 THEN [defined |-> FALSE, lastTick |-> 0]
  ELSE [defined |-> TRUE, lastTick |-> seg[Len(seg)].k]

\* observation: record(tick, val) resolved (val = 0: a record call made while
\* a stop was already in flight, which is not counted as part of the session)
Ack(a, tick, val) ==
  IF val = 0 THEN a
  ELSE [k \in DOMAIN a \cup {tick} |->
          IF k = tick /\ (k \notin DOMAIN a \/ a[k] < val) THEN val ELSE a[k]]

StopInFlight == \E i \in 1..Len(rtasks) : rtasks[i].op = "stop"

Rejected(op, err) ==
  /\ rev' = Ev(op, "rejected", err)
  /\ UNCHANGED <<files, header, recState, currentSegment, segmentIndex, pausedData,
                 rtasks, nrec, acked, recorded>>

RecorderStart ==
  /\ UNCHANGED <<repVars, appVars, failed>>
  /\ rcalls < MaxCalls
  /\ rcalls' = rcalls + 1
  /\ IF ~StartAllowed(recState)
     THEN Rejected("start", "state")
     ELSE /\ rtasks' = Append(rtasks,
                 RTask("start", "mkdir", FALSE, 0, NoSnap, NoHeader, 0, 0))
          /\ rev' = Ev("start", "pending", "none")
          /\ UNCHANGED <<files, header, recState, currentSegment, segmentIndex,
                         pausedData, nrec, acked, recorded>>

StartDirMade(i) ==
  /\ UNCHANGED <<repVars, appVars, failed>>
  /\ Runnable(rtasks, i)
  /\ rtasks[i].op = "start" /\ rtasks[i].pc = "mkdir"
  /\ \E r \in TickRates :
       rtasks' = [rtasks EXCEPT ![i].pc = "writeHeader",
                    ![i].meta = [exists |-> TRUE, tickRate |-> r,
                                 segmentSize |-> SegmentSize, totalTicks |-> 0]]
  /\ UNCHANGED <<files, header, recState, currentSegment, segmentIndex, pausedData,
                 rcalls, nrec, acked, recorded, rev>>

StartHeaderWritten(i) ==
  /\ UNCHANGED <<repVars, appVars>>
  /\ failed' = NoFailure
  /\ Runnable(rtasks, i)
  /\ rtasks[i].op = "start" /\ rtasks[i].pc = "writeHeader"
  /\ header' = rtasks[i].meta
  /\ recState' = "recording"
  /\ segmentIndex' = 0
  /\ currentSegment' = <<>>
  /\ pausedData' = [defined |-> FALSE, lastTick |-> 0]
  /\ rtasks' = RemoveAt(rtasks, i)
  /\ acked' = <<>>
  /\ recorded' = {}
  /\ rev' = Ev("start", "resolved", "none")
  /\ UNCHANGED <<files, rcalls, nrec>>

RecorderPause ==
  /\ UNCHANGED <<repVars, appVars, failed>>
  /\ rcalls < MaxCalls
  /\ rcalls' = rcalls + 1
  /\ IF ~PauseAllowed(recState)
     THEN Rejected("pause", "state")
     ELSE /\ rtasks' = Append(rtasks, FlushTask("pause", currentSegment, 0, 0))
          /\ rev' = Ev("pause", "pending", "none")
          /\ UNCHANGED <<files, header, recState, currentSegment, segmentIndex,
                         pausedData, nrec, acked, recorded>>

PauseFlushed(i) ==
  /\ UNCHANGED <<repVars, appVars, failed>>
  /\ Runnable(rtasks, i)
  /\ rtasks[i].op = "pause" /\ rtasks[i].pc = "flush"
  /\ files' = FilesAfter(rtasks[i])
  /\ currentSegment' = SegmentAfter(rtasks[i])
  /\ segmentIndex' = IndexAfter(rtasks[i])
  /\ pausedData' = LastKey(SegmentAfter(rtasks[i]))
  /\ recState' = "paused"
  /\ rtasks' = RemoveAt(rtasks, i)
  /\ rev' = Ev("pause", "resolved", "none")
  /\ UNCHANGED <<header, rcalls, nrec, acked, recorded>>

RecorderResume ==
  /\ UNCHANGED <<repVars, appVars, failed>>
  /\ rcalls < MaxCalls
  /\ rcalls' = rcalls + 1
  /\ IF ~ResumeAllowed(recState)
     THEN Rejected("resume", "state")
     ELSE /\ recState' = "recording"
          /\ rev' = Ev("resume", "resolved", "none")
          /\ UNCHANGED <<files, header, currentSegment, segmentIndex, pausedData,
                         rtasks, nrec, acked, recorded>>

RecorderRecord(tick) ==
  /\ UNCHANGED <<repVars, appVars, failed>>
  /\ rcalls < MaxCalls
  /\ rcalls' = rcalls + 1
  /\ IF ~RecordAllowed(recState)
     THEN Rejected("record", "state")
     ELSE IF ~TickSequenceOk(pausedData, tick)
     THEN Rejected("record", "sequence")
     ELSE LET val == nrec + 1
              seg == MapSet(currentSegment, tick, val)
              ack == IF StopInFlight THEN 0 ELSE val
          IN /\ currentSegment' = seg
             /\ nrec' = val
             /\ recorded' = recorded \cup {tick}
             /\ IF FlushTrigger(seg)
                THEN /\ rtasks' = Append(rtasks, FlushTask("record", seg, tick, ack))
                     /\ rev' = Ev("record", "pending", "none")
                     /\ acked' = acked
                ELSE /\ rtasks' = rtasks
                     /\ rev' = Ev("record", "resolved", "none")
                     /\ acked' = Ack(acked, tick, ack)
             /\ UNCHANGED <<files, header, recState, segmentIndex, pausedData>>

RecordFlushed(i) ==
  /\ UNCHANGED <<repVars, appVars, failed>>
  /\ Runnable(rtasks, i)
  /\ rtasks[i].op = "record" /\ rtasks[i].pc = "flush"
  /\ files' = FilesAfter(rtasks[i])
  /\ currentSegment' = SegmentAfter(rtasks[i])
  /\ segmentIndex' = IndexAfter(rtasks[i])
  /\ rtasks' = RemoveAt(rtasks, i)
  /\ acked' = Ack(acked, rtasks[i].tick, rtasks[i].val)
  /\ rev' = Ev("record", "resolved", "none")
  /\ UNCHANGED <<header, recState, pausedData, rcalls, nrec, recorded>>

RecorderStop ==
  /\ UNCHANGED <<repVars, appVars, failed>>
  /\ rcalls < MaxCalls
  /\ rcalls' = rcalls + 1
  /\ IF ~StopAllowed(recState)
     THEN Rejected("stop", "state")
     ELSE /\ rtasks' = Append(rtasks, FlushTask("stop", currentSegment, 0, 0))
          /\ rev' = Ev("stop", "pending", "none")
          /\ UNCHANGED <<files, header, recState, currentSegment, segmentIndex,
                         pausedData, nrec, acked, recorded>>

StopFlushed(i) ==
  /\ UNCHANGED <<repVars, appVars, failed>>
  /\ Runnable(rtasks, i)
  /\ rtasks[i].op = "stop" /\ rtasks[i].pc = "flush"
  /\ files' = FilesAfter(rtasks[i])
  /\ currentSegment' = SegmentAfter(rtasks[i])
  /\ segmentIndex' = IndexAfter(rtasks[i])
  /\ rtasks' = [rtasks EXCEPT ![i].pc = "readHeader", ![i].micro = FALSE]
  /\ UNCHANGED <<header, recState, pausedData, rcalls, nrec, acked, recorded, rev>>

StopHeaderRead(i) ==
  /\ UNCHANGED <<repVars, appVars, failed>>
  /\ Runnable(rtasks, i)
  /\ rtasks[i].op = "stop" /\ rtasks[i].pc = "readHeader"
  /\ header.exists
  /\ rtasks' = [rtasks EXCEPT ![i].pc = "writeHeader",
                  ![i].meta = [header EXCEPT
                     !.totalTicks = TotalTicks(segmentIndex, currentSegment)]]
  /\ UNCHANGED <<files, header, recState, currentSegment, segmentIndex, pausedData,
                 rcalls, nrec, acked, recorded, rev>>

StopHeaderWritten(i) ==
  /\ UNCHANGED <<repVars, appVars, failed>>
  /\ Runnable(rtasks, i)
  /\ rtasks[i].op = "stop" /\ rtasks[i].pc = "writeHeader"
  /\ header' = rtasks[i].meta
  /\ recState' = "idle"
  /\ rtasks' = RemoveAt(rtasks, i)
  /\ rev' = Ev("stop", "resolved", "none")
  /\ UNCHANGED <<files, currentSegment, segmentIndex, pausedData,
                 rcalls, nrec, acked, recorded>>

----------------------------------------------------------------------------
(* Replayer: construction *)

NullTimer == [set |-> FALSE, pending |-> FALSE, due |-> 0]
NoTickMeta == [defined |-> FALSE, tick |-> 0, time |-> 0, segmentIndex |-> 0]

\* (mutant: the upper limit taken as exclusive)
ClampExclusive(x, lo, hi) ==
  LET m == IF x < hi THEN x ELSE hi - 1 IN IF lo > m THEN lo ELSE m
\* Math.max(lo, Math.min(x, hi))
Clamp(x, lo, hi) == LET m == IF x < hi THEN x ELSE hi IN IF lo > m THEN lo ELSE m

\* (mutant: the upper limit of the speed is not applied)
ClampSpeedNoCap(x) == IF x < 1 THEN 1 ELSE x
\* the speed range, in tenths: Math.max(0.1, Math.min(speed, 10))
ClampSpeed(x) == Clamp(x, 1, 100)

PEv(op, res, overlap) == [op |-> op, res |-> res, overlap |-> overlap]

\* observation: the promise of a play or seek call of the caller settled
\* (clean: no call was suspended and no stray timer pending when the caller
\* made its last call; from: the state in which it was made)
Settled(op, arg, res, clean, from) ==
  [op |-> op, arg |-> arg, res |-> res, clean |-> clean, from |-> from]

\* new Replayer(options), options.speed drawn from speeds (0: not given):
\* options.speed || 1, clamped; every other field at its initializer
ReplayerNewWith(speeds) ==
  /\ meta = NoHeader
  /\ loadedSegments = <<>>
  /\ currentTimer = NullTimer
  /\ orphans = <<>>
  /\ currentTick = 0
  /\ state = "idle"
  /\ lastPlayedTickMeta = NoTickMeta
  /\ currentSpeed \in {ClampSpeed(IF x = 0 THEN 10 ELSE x) : x \in speeds}
  /\ playStartTime = 0
  /\ pausedDuration = 0
  /\ pauseStartTime = 0
  /\ tasks = <<>>
  /\ now = 0
  /\ pcalls = 0
  /\ delivered = <<>>
  /\ ended = [count |-> 0, tick |-> 0]
  /\ pev = PEv("new", "returned", FALSE)
  /\ settled = Settled("none", 0, "none", TRUE, "idle")
  /\ session = [start |-> 0, paused |-> 0]
  /\ rangeData = <<>>

ReplayerNew == ReplayerNewWith(SpeedOptions)

\* new Recorder(dataDir, config)
RecorderNew ==
  /\ recState = "idle"
  /\ currentSegment = <<>>
  /\ segmentIndex = 0
  /\ pausedData = [defined |-> FALSE, lastTick |-> 0]
  /\ rtasks = <<>>
  /\ rcalls = 0
  /\ nrec = 0
  /\ acked = <<>>
  /\ recorded = {}
  /\ rev = Ev("new", "resolved", "none")
  /\ failed = NoFailure

\* a timer of the PlayerRecorder: none pending, or one due at time due
NoPrTimer == [pending |-> FALSE, due |-> 0]

\* validateIntervals(): flushInterval in [0.5 s, 60 s], newFileInterval in
\* [0, 10 min], and newFileInterval is 0 or at least flushInterval
validateIntervals(f, n) ==
  /\ f >= 1
  /\ f <= 120
  /\ n >= 0
  /\ n <= 1200
  /\ (n = 0 \/ n >= f)

\* new PlayerRecorder({directory, flushInterval: f, newFileInterval: n}) once
\* validateIntervals has passed. stream is "null", "open" (a write stream that
\* accepts writes) or "ending" (end() was called and the stream has not
\* finished); cbs are the callbacks passed to end() that wait for the finish.
\* accepted, log, resumed, calls, nev and now are not fields of the object:
\* the events recordEvent queued, the events written to a log file, whether
\* the last of pause/resume/stop was a resume of a paused recording, the
\* calls and events so far, and the clock.
PlayerRecorderWith(f, n) ==
  [flushInterval |-> f, newFileInterval |-> n, queue |-> <<>>,
   stream |-> "null", cbs |-> <<>>,
   flushTimer |-> NoPrTimer, newFileTimer |-> NoPrTimer, lostTimers |-> <<>>,
   isRecording |-> FALSE, isPaused |-> FALSE, nextFileTimestamp |-> 0,
   accepted |-> {}, log |-> {}, resumed |-> FALSE,
   calls |-> 0, nev |-> 0, now |-> 0]

\* the PlayerRecorder with the constructor's default options
PlayerRecorderNew == pr = PlayerRecorderWith(DefaultFlushInterval, DefaultNewFileInterval)

\* a player's state: on foot (veh = 0), or in vehicle veh as driver or passenger
OnFoot == [veh |-> NoVeh, driver |-> FALSE]

\* the last call made to replay.ts and how it ended
VehEv(op, player, res) == [op |-> op, player |-> player, res |-> res]

\* replay.ts after the module is loaded: the maps (sequences of entries
\* [k, v] in insertion order, keyed by vehicle id) are empty, every player is
\* on foot and no startRecordVehData is in flight. A file map holds the
\* player whose start named the file. recordReplayVehStartTime,
\* recordingVehTimeStamp and their pause counterparts are set and deleted
\* together with the file maps and are not kept apart.
ReplayModuleNew ==
  vr = [recordingVehPlayer |-> <<>>,
        pauseVehPlayer |-> <<>>,
        recordingVehFile |-> <<>>,
        pauseVehFile |-> <<>>,
        recordOrPauseAdditional |-> <<>>,
        seat |-> [p \in Players |-> OnFoot],
        starts |-> <<>>,
        last |-> VehEv("none", NoPlayer, "returned")]

\* a new recorder on an empty directory (the replayer is not used)
RecorderInit ==
  /\ RecorderNew
  /\ PlayerRecorderNew
  /\ ReplayModuleNew
  /\ ReplayerNew
  /\ files = <<>>
  /\ header = NoHeader

RecorderNext ==
  \/ RecorderStart
  \/ RecorderPause
  \/ RecorderResume
  \/ \E tick \in 0..MaxTick : RecorderRecord(tick)
  \/ RecorderStop
  \/ \E i \in 1..Len(rtasks) : StartDirMade(i)
  \/ \E i \in 1..Len(rtasks) : StartHeaderWritten(i)
  \/ \E i \in 1..Len(rtasks) : PauseFlushed(i)
  \/ \E i \in 1..Len(rtasks) : RecordFlushed(i)
  \/ \E i \in 1..Len(rtasks) : StopFlushed(i)
  \/ \E i \in 1..Len(rtasks) : StopHeaderRead(i)
  \/ \E i \in 1..Len(rtasks) : StopHeaderWritten(i)

RecorderSpec == RecorderInit /\ [][RecorderNext]_vars

\* (mutant: the buffer is cleared before the write is awaited)
SegmentOnFailureCleared(t) == <<>>
\* flushSegment when its awaited write throws: the statements after the await
\* are not reached, the buffer and the index stay as they are
SegmentOnFailure(t) == currentSegment
IndexOnFailure(t) == segmentIndex

\* the fs.writeFile of a flush fails: flushSegment throws, and so does the
\* record, pause or stop that awaits it
FlushFailed(i) ==
  /\ UNCHANGED <<repVars, appVars>>
  /\ Runnable(rtasks, i)
  /\ rtasks[i].pc = "flush" /\ ~rtasks[i].micro
  /\ currentSegment' = SegmentOnFailure(rtasks[i])
  /\ segmentIndex' = IndexOnFailure(rtasks[i])
  /\ rtasks' = RemoveAt(rtasks, i)
  /\ rev' = Ev(rtasks[i].op, "rejected", "io")
  /\ failed' = [count |-> failed.count + 1, idx |-> rtasks[i].idx,
                data |-> rtasks[i].snap.data]
  /\ UNCHANGED <<files, header, recState, pausedData, rcalls, nrec, acked, recorded>>

\* a recorder whose caller awaits every call before the next, on a disk
\* where a segment write may fail
IoNext ==
  \/ Len(rtasks) = 0 /\ RecorderStart
  \/ Len(rtasks) = 0 /\ RecorderPause
  \/ Len(rtasks) = 0 /\ RecorderResume
  \/ Len(rtasks) = 0 /\ \E tick \in 0..MaxTick : RecorderRecord(tick)
  \/ Len(rtasks) = 0 /\ RecorderStop
  \/ \E i \in 1..Len(rtasks) : StartDirMade(i)
  \/ \E i \in 1..Len(rtasks) : StartHeaderWritten(i)
  \/ \E i \in 1..Len(rtasks) : PauseFlushed(i)
  \/ \E i \in 1..Len(rtasks) : RecordFlushed(i)
  \/ \E i \in 1..Len(rtasks) : StopFlushed(i)
  \/ \E i \in 1..Len(rtasks) : StopHeaderRead(i)
  \/ \E i \in 1..Len(rtasks) : StopHeaderWritten(i)
  \/ \E i \in 1..Len(rtasks) : FlushFailed(i)

IoSpec == RecorderInit /\ [][IoNext]_vars

\* the data directory is there (the header is its first file and nothing but
\* discard removes it)
DirExists == header.exists

\* discard(): calls this.stop() without awaiting it, then awaits fs.rm of the
\* directory. In state Idle stop throws at once (its promise is rejected and
\* dropped); otherwise the stop runs on next to the removal
RecorderDiscard ==
  /\ UNCHANGED <<repVars, appVars, failed>>
  /\ rcalls < MaxCalls
  /\ rcalls' = rcalls + 1
  /\ LET rm == RTask("discard", "rm", FALSE, 0, NoSnap, NoHeader, 0, 0)
         stopped == IF ~StopAllowed(recState) THEN rtasks
                    ELSE Append(rtasks, FlushTask("discardStop", currentSegment, 0, 0))
     IN rtasks' = Append(stopped, rm)
  /\ rev' = Ev("discard", "pending", "none")
  /\ UNCHANGED <<files, header, recState, currentSegment, segmentIndex,
                 pausedData, nrec, acked, recorded>>

\* the stop started by discard resumes after `await this.flushSegment()`;
\* a write into the removed directory fails and ends the stop
DiscardStopFlushed(i) ==
  /\ UNCHANGED <<repVars, appVars, failed>>
  /\ Runnable(rtasks, i)
  /\ rtasks[i].op = "discardStop" /\ rtasks[i].pc = "flush"
  /\ IF ~rtasks[i].micro /\ ~DirExists
     THEN /\ rtasks' = RemoveAt(rtasks, i)
          /\ UNCHANGED <<files, currentSegment, segmentIndex>>
     ELSE /\ files' = FilesAfter(rtasks[i])
          /\ currentSegment' = SegmentAfter(rtasks[i])
          /\ segmentIndex' = IndexAfter(rtasks[i])
          /\ rtasks' = [rtasks EXCEPT ![i].pc = "readHeader", ![i].micro = FALSE]
  /\ UNCHANGED <<header, recState, pausedData, rcalls, nrec, acked, recorded, rev>>

\* the stop started by discard resumes after its read of the header; the
\* read of a removed header fails and ends the stop
DiscardStopHeaderRead(i) ==
  /\ UNCHANGED <<repVars, appVars, failed>>
  /\ Runnable(rtasks, i)
  /\ rtasks[i].op = "discardStop" /\ rtasks[i].pc = "readHeader"
  /\ IF ~header.exists
     THEN rtasks' = RemoveAt(rtasks, i)
     ELSE rtasks' = [rtasks EXCEPT ![i].pc = "writeHeader",
                       ![i].meta = [header EXCEPT
                          !.totalTicks = TotalTicks(segmentIndex, currentSegment)]]
  /\ UNCHANGED <<files, header, recState, currentSegment, segmentIndex, pausedData,
                 rcalls, nrec, acked, recorded, rev>>

\* the stop started by discard resumes after its write of the header; the
\* write into the removed directory fails and ends the stop
DiscardStopHeaderWritten(i) ==
  /\ UNCHANGED <<repVars, appVars, failed>>
  /\ Runnable(rtasks, i)
  /\ rtasks[i].op = "discardStop" /\ rtasks[i].pc = "writeHeader"
  /\ IF ~DirExists
     THEN UNCHANGED <<header, recState>>
     ELSE header' = rtasks[i].meta /\ recState' = "idle"
  /\ rtasks' = RemoveAt(rtasks, i)
  /\ UNCHANGED <<files, currentSegment, segmentIndex, pausedData,
                 rcalls, nrec, acked, recorded, rev>>

\* discard resumes after `await fs.rm(...)`: the directory and its files are
\* gone, and discard resolves
DiscardRemoved(i) ==
  /\ UNCHANGED <<repVars, appVars, failed>>
  /\ Runnable(rtasks, i)
  /\ rtasks[i].op = "discard" /\ rtasks[i].pc = "rm"
  /\ files' = <<>>
  /\ header' = NoHeader
  /\ rtasks' = RemoveAt(rtasks, i)
  /\ rev' = Ev("discard", "resolved", "none")
  /\ UNCHANGED <<recState, currentSegment, segmentIndex, pausedData,
                 rcalls, nrec, acked, recorded>>

\* a recorder whose caller makes each call when nothing is in flight, with
\* discard among the calls
DiscardNext ==
  \/ Len(rtasks) = 0 /\ RecorderStart
  \/ Len(rtasks) = 0 /\ RecorderPause
  \/ Len(rtasks) = 0 /\ RecorderResume
  \/ Len(rtasks) = 0 /\ \E tick \in 0..MaxTick : RecorderRecord(tick)
  \/ Len(rtasks) = 0 /\ RecorderStop
  \/ Len(rtasks) = 0 /\ RecorderDiscard
  \/ \E i \in 1..Len(rtasks) : StartDirMade(i)
  \/ \E i \in 1..Len(rtasks) : StartHeaderWritten(i)
  \/ \E i \in 1..Len(rtasks) : PauseFlushed(i)
  \/ \E i \in 1..Len(rtasks) : RecordFlushed(i)
  \/ \E i \in 1..Len(rtasks) : StopFlushed(i)
  \/ \E i \in 1..Len(rtasks) : StopHeaderRead(i)
  \/ \E i \in 1..Len(rtasks) : StopHeaderWritten(i)
  \/ \E i \in 1..Len(rtasks) : DiscardStopFlushed(i)
  \/ \E i \in 1..Len(rtasks) : DiscardStopHeaderRead(i)
  \/ \E i \in 1..Len(rtasks) : DiscardStopHeaderWritten(i)
  \/ \E i \in 1..Len(rtasks) : DiscardRemoved(i)

DiscardSpec == RecorderInit /\ [][DiscardNext]_vars

----------------------------------------------------------------------------
(* Replayer: the methods as functions on the replayer's fields *)

\* the replayer's fields (and the observation of its callbacks) as one record
Rep ==
  [meta |-> meta, loadedSegments |-> loadedSegments, currentTimer |-> currentTimer,
   orphans |-> orphans, currentTick |-> currentTick, state |-> state,
   lastPlayedTickMeta |-> lastPlayedTickMeta, currentSpeed |-> currentSpeed,
   playStartTime |-> playStartTime, pausedDuration |-> pausedDuration,
   pauseStartTime |-> pauseStartTime, tasks |-> tasks,
   delivered |-> delivered, ended |-> ended, settled |-> settled,
   session |-> session, rangeData |-> rangeData]

SetRep(r) ==
  /\ meta' = r.meta
  /\ loadedSegments' = r.loadedSegments
  /\ currentTimer' = r.currentTimer
  /\ orphans' = r.orphans
  /\ currentTick' = r.currentTick
  /\ state' = r.state
  /\ lastPlayedTickMeta' = r.lastPlayedTickMeta
  /\ currentSpeed' = r.currentSpeed
  /\ playStartTime' = r.playStartTime
  /\ pausedDuration' = r.pausedDuration
  /\ pauseStartTime' = r.pauseStartTime
  /\ tasks' = r.tasks
  /\ delivered' = r.delivered
  /\ ended' = r.ended
  /\ settled' = r.settled
  /\ session' = r.session
  /\ rangeData' = r.rangeData

PTask(op, pc, micro, arg, idx, internal) ==
  [op |-> op, pc |-> pc, micro |-> micro, arg |-> arg, idx |-> idx,
   internal |-> internal]

\* clearTimeout(this.currentTimer)
clearTimeout(r) == [r EXCEPT !.currentTimer.pending = FALSE]

\* setTimeout(callback, delay): Node truncates the delay to an integer and
\* uses 1 ms for a delay below 1; the new handle replaces the one in currentTimer
setTimeout(r, t, delay) ==
  [r EXCEPT
     !.orphans = IF r.currentTimer.pending THEN Append(@, r.currentTimer.due) ELSE @,
     !.currentTimer = [set |-> TRUE, pending |-> TRUE,
                       due |-> t + (IF delay < 1 THEN 1 ELSE delay)]]

\* the number of tick timers that are pending
PendingTimers(r) == (IF r.currentTimer.pending THEN 1 ELSE 0) + Len(r.orphans)

\* (mutant: stop also rewinds the cursor)
stopRewinds(r) ==
  [r EXCEPT !.currentTimer = IF @.set THEN NullTimer ELSE @,
            !.state = "idle", !.currentTick = 0]
\* (mutant: stop leaves the timer armed)
stopKeepTimer(r) == [r EXCEPT !.state = "idle"]
\* Replayer.stop
stop(r) ==
  [r EXCEPT !.currentTimer = IF @.set THEN NullTimer ELSE @,
            !.state = "idle"]

\* a payload that JavaScript treats as false in `if (!data)`
Falsy(v) == v = 0

NoResult == [found |-> FALSE, data |-> 0, meta |-> NoTickMeta]

\* Replayer.getTickData
getTickData(r, tick) ==
  LET index == tick \div r.meta.segmentSize IN
  IF index \notin DOMAIN r.loadedSegments THEN NoResult
  ELSE LET segment == r.loadedSegments[index] IN
       IF tick \notin DOMAIN segment THEN NoResult
       ELSE IF Falsy(segment[tick]) THEN NoResult
       ELSE [found |-> TRUE, data |-> segment[tick],
             meta |-> [defined |-> TRUE, tick |-> tick,
                       time |-> (tick * 1000) \div r.meta.tickRate,
                       segmentIndex |-> index]]

\* Replayer.getExpectedTick at performance.now() = t
getExpectedTick(r, t) ==
  IF r.state # "playing" THEN r.currentTick
  ELSE LET elapsed == t - r.playStartTime - r.pausedDuration IN
       (elapsed * r.meta.tickRate * r.currentSpeed) \div (1000 * 10)

\* Replayer.seek up to its first await: stop(), then await this.init()
seekCall(r, tick, internal) ==
  [stop(r) EXCEPT
     !.tasks = Append(@, PTask("seek", "init", r.meta.exists, tick, 0, internal))]

\* Replayer.syncToRealTime
syncToRealTime(r, t) ==
  LET expectedTick == getExpectedTick(r, t) IN
  IF expectedTick > r.currentTick THEN seekCall(r, expectedTick, TRUE) ELSE r

\* Replayer.scheduleNextTick
scheduleNextTick(r, t) ==
  IF r.state # "playing" THEN r
  ELSE LET nextTickTime == IF r.lastPlayedTickMeta.defined
                           THEN r.lastPlayedTickMeta.time + 1000 \div r.meta.tickRate
                           ELSE t
           delay == IF nextTickTime - t <= 0 THEN 0
                    ELSE ((nextTickTime - t) * 10) \div r.currentSpeed
       IN setTimeout(r, t, delay)

\* Replayer.processTickAndScheduleNext
processTickAndScheduleNext(r, t) ==
  LET result == getTickData(r, r.currentTick) IN
  IF ~result.found
  THEN [stop(r) EXCEPT !.ended = [count |-> @.count + 1, tick |-> r.currentTick]]
  ELSE scheduleNextTick(
         syncToRealTime(
           [r EXCEPT !.delivered = Append(@, result.meta.tick),
                     !.lastPlayedTickMeta = result.meta], t), t)

\* the Map loadSegment builds from a segment file: keys through parseInt
Decode(file) ==
  [k \in {parseInt(s) : s \in DOMAIN file.data} |->
     file.data[CHOOSE s \in DOMAIN file.data : parseInt(s) = k]]

\* Replayer.loadSegment up to its await: the task waits for the file, or
\* (segment cached) for the promise returned at once
loadTask(r, op, index, internal) ==
  PTask(op, "load", index \in DOMAIN r.loadedSegments, 0, index, internal)

\* Replayer.loadSegment after its await (the file exists)
loadDone(r, t) ==
  IF t.micro THEN r
  ELSE [r EXCEPT !.loadedSegments =
          [k \in DOMAIN @ \cup {t.idx} |->
             IF k = t.idx THEN Decode(files[t.idx]) ELSE @[k]]]

\* Replayer.init after its await
initDone(r, t) == IF t.micro THEN r ELSE [r EXCEPT !.meta = header]

\* Replayer.play from `await this.init()` to `await this.loadSegment(...)`
playInit(r, t) ==
  LET r1 == [r EXCEPT !.state = "playing", !.playStartTime = t,
                      !.pausedDuration = 0]
  IN [r1 EXCEPT !.tasks = Append(@,
        loadTask(r1, "play", r1.currentTick \div r1.meta.segmentSize, FALSE))]

\* Replayer.seek from `await this.init()` to `await this.loadSegment(...)`
seekInit(r, tick, internal) ==
  LET r1 == [r EXCEPT !.currentTick = Clamp(tick, 0, r.meta.totalTicks - 1)]
  IN [r1 EXCEPT !.tasks = Append(@,
        [loadTask(r1, "seek", r1.currentTick \div r1.meta.segmentSize, internal)
           EXCEPT !.arg = tick])]

\* Replayer.seek after `await this.loadSegment(...)`
seekEcho(r) ==
  LET result == getTickData(r, r.currentTick) IN
  IF result.found
  THEN [r EXCEPT !.delivered = Append(@, result.meta.tick),
                 !.lastPlayedTickMeta = result.meta]
  ELSE r

\* getRangeData: the range [a, b] clamped to [0, totalTicks - 1]
RangeTicks(r, a, b) ==
  Clamp(a, 0, r.meta.totalTicks - 1)..Clamp(b, 0, r.meta.totalTicks - 1)

\* getRangeData: the segments it preloads for the ticks of a range
RangeSegments(r, ticks) == {t \div r.meta.segmentSize : t \in ticks}

\* getRangeData: the entry {data, meta} of a tick, or the placeholder with
\* data = null, looked up in the preloaded segments
RangeEntry(r, segs, tick) ==
  LET holders == {k \in segs : tick \in DOMAIN r.loadedSegments[k]}
      tickMeta == [defined |-> TRUE, tick |-> tick,
                   time |-> (tick * 1000) \div r.meta.tickRate,
                   segmentIndex |-> tick \div r.meta.segmentSize]
  IN IF holders = {}
     THEN [null |-> TRUE, data |-> 0, meta |-> tickMeta]
     ELSE [null |-> FALSE, data |-> r.loadedSegments[Min(holders)][tick],
           meta |-> tickMeta]

\* getRangeData: the entries of the ticks from..to in increasing order;
\* a tick without payload is emitted only with includePartialTicks
RECURSIVE RangeEntries(_, _, _, _, _)
RangeEntries(r, segs, from, to, partial) ==
  IF from > to THEN <<>>
  ELSE LET e == RangeEntry(r, segs, from) IN
       (IF e.null /\ ~partial THEN <<>> ELSE <<e>>)
         \o RangeEntries(r, segs, from + 1, to, partial)

\* getRangeData after its header and segments have been read
rangeLoaded(r, t) ==
  LET r1 == initDone(r, [t EXCEPT !.micro = r.meta.exists])
      ticks == RangeTicks(r1, t.arg.a, t.arg.b)
      segs == RangeSegments(r1, ticks)
      r2 == [r1 EXCEPT !.loadedSegments =
               [k \in DOMAIN @ \cup segs |->
                  IF k \in DOMAIN @ THEN @[k] ELSE Decode(files[k])]]
  IN [r2 EXCEPT !.rangeData =
        IF ticks = {} THEN <<>>
        ELSE RangeEntries(r2, segs, Min(ticks), Max(ticks), t.arg.partial)]

\* the segments of the range of task t that are neither cached nor on disk
RangeUnreadable(r, t) ==
  LET r1 == initDone(r, [t EXCEPT !.micro = r.meta.exists])
  IN {k \in RangeSegments(r1, RangeTicks(r1, t.arg.a, t.arg.b)) :
        k \notin DOMAIN r.loadedSegments /\ k \notin DOMAIN files}

\* the caller's next call starts a new observation window
Window(r) ==
  [r EXCEPT !.delivered = <<>>, !.ended = [count |-> 0, tick |-> 0],
            !.settled = Settled("none", 0, "none",
                                Len(r.tasks) = 0 /\ Len(r.orphans) = 0, r.state)]

\* the promise of a call settles (observed for the caller's calls only)
Settle(r, t, res) ==
  IF t.internal THEN r
  ELSE [r EXCEPT !.settled = Settled(t.op, t.arg, res, @.clean, @.from)]

WithoutTask(r, i) == [r EXCEPT !.tasks = RemoveAt(@, i)]

\* observation: a play that was not started by resume begins a session at t
SessionStart(r, before, t) ==
  IF before = "paused" THEN r
  ELSE [r EXCEPT !.session = [start |-> t, paused |-> 0]]

----------------------------------------------------------------------------
(* Replayer: the caller's calls *)

\* some earlier call of the caller has not settled yet
Overlap == Len(tasks) > 0

Call(op, res) ==
  /\ pcalls < MaxReplayCalls
  /\ pcalls' = pcalls + 1
  /\ pev' = PEv(op, res, Overlap)
  /\ now' = now
  /\ UNCHANGED <<files, header>>
  /\ UNCHANGED <<recVars, appVars>>

\* play(): rejected while Playing; otherwise suspended at `await this.init()`
ReplayerPlay ==
  IF state = "playing"
  THEN Call("play", "rejected") /\ SetRep(Window(Rep))
  ELSE /\ Call("play", "pending")
       /\ SetRep([Window(Rep) EXCEPT
            !.tasks = Append(@, PTask("play", "init", meta.exists, 0, 0, FALSE))])

\* pause()
ReplayerPause ==
  IF state # "playing"
  THEN Call("pause", "threw") /\ SetRep(Window(Rep))
  ELSE /\ Call("pause", "returned")
       /\ LET r1 == [Window(Rep) EXCEPT !.state = "paused", !.pauseStartTime = now]
          IN SetRep(IF r1.currentTimer.set THEN clearTimeout(r1) ELSE r1)

\* resume(): folds the pause into pausedDuration, then calls play() and
\* drops its promise
ReplayerResume ==
  IF state # "paused"
  THEN Call("resume", "threw") /\ SetRep(Window(Rep))
  ELSE /\ Call("resume", "returned")
       /\ SetRep([Window(Rep) EXCEPT
            !.pausedDuration = @ + (now - pauseStartTime),
            !.session.paused = @ + (now - pauseStartTime),
            !.tasks = Append(@, PTask("play", "init", meta.exists, 0, 0, FALSE))])

\* seek(tick)
ReplayerSeek(tick) ==
  /\ Call("seek", "pending")
  /\ SetRep(seekCall(Window(Rep), tick, FALSE))

\* seekToTime(time): reads this.meta.tickRate before anything has loaded the
\* header; with meta undefined the read throws and the call is rejected at
\* once, otherwise the call is seek(targetTick)
ReplayerSeekToTime(time) ==
  IF ~meta.exists
  THEN Call("seekToTime", "rejected") /\ SetRep(Window(Rep))
  ELSE /\ Call("seekToTime", "pending")
       /\ SetRep(seekCall(Window(Rep), (time * meta.tickRate) \div 1000, FALSE))

\* stepForward(ticks)
ReplayerStepForward(ticks) ==
  /\ Call("stepForward", "returned")
  /\ SetRep(seekCall(Window(Rep), currentTick + ticks, FALSE))

\* stepBackward(ticks)
ReplayerStepBackward(ticks) ==
  /\ Call("stepBackward", "returned")
  /\ SetRep(seekCall(Window(Rep),
                     IF currentTick - ticks < 0 THEN 0 ELSE currentTick - ticks,
                     FALSE))

\* setSpeed(speed), speed in tenths
ReplayerSetSpeed(speed) ==
  IF state # "playing"
  THEN Call("setSpeed", "threw") /\ SetRep(Window(Rep))
  ELSE /\ Call("setSpeed", "returned")
       /\ LET r1 == [Window(Rep) EXCEPT !.currentSpeed = ClampSpeed(speed)]
          IN SetRep(IF r1.currentTimer.set
                    THEN scheduleNextTick(clearTimeout(r1), now)
                    ELSE r1)

\* getRangeData({tickRange: [a, b], includePartialTicks: partial}): suspended
\* while the header and the segments of the range are read
ReplayerGetRangeData(a, b, partial) ==
  /\ Call("getRangeData", "pending")
  /\ SetRep([Window(Rep) EXCEPT
       !.tasks = Append(@, PTask("getRangeData", "load", FALSE,
                                 [a |-> a, b |-> b, partial |-> partial],
                                 0, FALSE))])

\* stop()
ReplayerStop ==
  /\ Call("stop", "returned")
  /\ SetRep(stop(Window(Rep)))

----------------------------------------------------------------------------
(* Replayer: continuations, timers and the clock *)

Internal ==
  /\ UNCHANGED <<files, header, pcalls, pev, now>>
  /\ UNCHANGED <<recVars, appVars>>

\* play resumes after `await this.init()`
PlayInit(i) ==
  /\ Runnable(tasks, i)
  /\ tasks[i].op = "play" /\ tasks[i].pc = "init"
  /\ Internal
  /\ IF ~tasks[i].micro /\ ~header.exists
     THEN SetRep(Settle(WithoutTask(Rep, i), tasks[i], "rejected"))
     ELSE SetRep(SessionStart(
                   playInit(initDone(WithoutTask(Rep, i), tasks[i]), now),
                   state, now))

\* play resumes after `await this.loadSegment(...)`
PlayLoad(i) ==
  /\ Runnable(tasks, i)
  /\ tasks[i].op = "play" /\ tasks[i].pc = "load"
  /\ Internal
  /\ IF ~tasks[i].micro /\ tasks[i].idx \notin DOMAIN files
     THEN SetRep(Settle(WithoutTask(Rep, i), tasks[i], "rejected"))
     ELSE SetRep(Settle(processTickAndScheduleNext(
                          loadDone(WithoutTask(Rep, i), tasks[i]), now),
                        tasks[i], "resolved"))

\* seek resumes after `await this.init()`
SeekInit(i) ==
  /\ Runnable(tasks, i)
  /\ tasks[i].op = "seek" /\ tasks[i].pc = "init"
  /\ Internal
  /\ IF ~tasks[i].micro /\ ~header.exists
     THEN SetRep(Settle(WithoutTask(Rep, i), tasks[i], "rejected"))
     ELSE SetRep(seekInit(initDone(WithoutTask(Rep, i), tasks[i]),
                          tasks[i].arg, tasks[i].internal))

\* seek resumes after `await this.loadSegment(...)`
SeekLoad(i) ==
  /\ Runnable(tasks, i)
  /\ tasks[i].op = "seek" /\ tasks[i].pc = "load"
  /\ Internal
  /\ IF ~tasks[i].micro /\ tasks[i].idx \notin DOMAIN files
     THEN SetRep(Settle(WithoutTask(Rep, i), tasks[i], "rejected"))
     ELSE SetRep(Settle(seekEcho(loadDone(WithoutTask(Rep, i), tasks[i])),
                        tasks[i], "resolved"))

\* getRangeData resumes after its reads
RangeLoaded(i) ==
  /\ Runnable(tasks, i)
  /\ tasks[i].op = "getRangeData" /\ tasks[i].pc = "load"
  /\ Internal
  /\ IF (~meta.exists /\ ~header.exists)
        \/ (header.exists /\ RangeUnreadable(Rep, tasks[i]) # {})
     THEN SetRep(Settle(WithoutTask(Rep, i), tasks[i], "rejected"))
     ELSE SetRep(Settle(rangeLoaded(WithoutTask(Rep, i), tasks[i]),
                        tasks[i], "resolved"))

\* the callback of the timer currentTimer refers to
TimerFire ==
  /\ ~HasMicro(tasks)
  /\ currentTimer.pending /\ now >= currentTimer.due
  /\ Internal
  /\ SetRep(processTickAndScheduleNext(
       [clearTimeout(Rep) EXCEPT !.currentTick = @ + 1], now))

\* the callback of a pending timer that currentTimer no longer refers to
OrphanFire(j) ==
  /\ ~HasMicro(tasks)
  /\ j \in 1..Len(orphans) /\ now >= orphans[j]
  /\ Internal
  /\ SetRep(processTickAndScheduleNext(
       [Rep EXCEPT !.orphans = RemoveAt(@, j), !.currentTick = @ + 1], now))

\* a millisecond passes
AdvanceClock ==
  /\ ~HasMicro(tasks)
  /\ now < MaxTime
  /\ now' = now + 1
  /\ UNCHANGED <<files, header, pcalls, pev>>
  /\ UNCHANGED <<recVars, appVars>>
  /\ SetRep(Rep)

\* the directory a Recorder leaves after start(), record(0, ..), ..,
\* record(n-1, ..) and stop(), each call awaited
RECURSIVE RecordedFiles(_, _, _, _, _)
RecordedFiles(t, n, seg, idx, fs) ==
  IF t = n
  THEN IF Len(seg) = 0 THEN [files |-> fs, index |-> idx]
       ELSE [files |-> WriteFile(fs, idx, SegmentData(seg)), index |-> idx + 1]
  ELSE LET seg1 == MapSet(seg, t, t + 1) IN
       IF FlushTrigger(seg1)
       THEN RecordedFiles(t + 1, n, <<>>, idx + 1, WriteFile(fs, idx, SegmentData(seg1)))
       ELSE RecordedFiles(t + 1, n, seg1, idx, fs)

\* a new replayer on a directory recorded by the Recorder
ReplayerInit ==
  /\ RecorderNew
  /\ PlayerRecorderNew
  /\ ReplayModuleNew
  /\ ReplayerNew
  /\ \E n \in 1..MaxLen : \E rate \in TickRates :
       LET d == RecordedFiles(0, n, <<>>, 0, <<>>) IN
       /\ files = d.files
       /\ header = [exists |-> TRUE, tickRate |-> rate, segmentSize |-> SegmentSize,
                    totalTicks |-> TotalTicks(d.index, <<>>)]

ReplayerNext ==
  \/ ReplayerPlay
  \/ ReplayerPause
  \/ ReplayerResume
  \/ \E tick \in SeekTargets : ReplayerSeek(tick)
  \/ \E ticks \in StepSizes : ReplayerStepForward(ticks)
  \/ \E ticks \in StepSizes : ReplayerStepBackward(ticks)
  \/ \E speed \in SpeedInputs : ReplayerSetSpeed(speed)
  \/ ReplayerStop
  \/ \E i \in 1..Len(tasks) : PlayInit(i)
  \/ \E i \in 1..Len(tasks) : PlayLoad(i)
  \/ \E i \in 1..Len(tasks) : SeekInit(i)
  \/ \E i \in 1..Len(tasks) : SeekLoad(i)
  \/ TimerFire
  \/ \E j \in 1..Len(orphans) : OrphanFire(j)
  \/ AdvanceClock

ReplayerSpec == ReplayerInit /\ [][ReplayerNext]_vars

\* a replayer constructed with any of SpeedValues on a one-tick recording,
\* driven by play, pause, resume, stop and setSpeed with any of SpeedValues
SpeedInit ==
  /\ RecorderNew
  /\ PlayerRecorderNew
  /\ ReplayModuleNew
  /\ ReplayerNewWith(SpeedValues)
  /\ LET d == RecordedFiles(0, 1, <<>>, 0, <<>>) IN
       /\ files = d.files
       /\ header = [exists |-> TRUE, tickRate |-> 1000, segmentSize |-> SegmentSize,
                    totalTicks |-> TotalTicks(d.index, <<>>)]

SpeedNext ==
  \/ ReplayerPlay
  \/ ReplayerPause
  \/ ReplayerResume
  \/ \E speed \in SpeedValues : ReplayerSetSpeed(speed)
  \/ ReplayerStop
  \/ \E i \in 1..Len(tasks) : PlayInit(i)
  \/ \E i \in 1..Len(tasks) : PlayLoad(i)
  \/ \E i \in 1..Len(tasks) : SeekInit(i)
  \/ \E i \in 1..Len(tasks) : SeekLoad(i)
  \/ TimerFire
  \/ \E j \in 1..Len(orphans) : OrphanFire(j)
  \/ AdvanceClock

SpeedSpec == SpeedInit /\ [][SpeedNext]_vars

\* a new replayer on a recording of CacheSegments full segments, driven by
\* play, stop, seeks to both ends and single steps
CacheInit ==
  /\ RecorderNew
  /\ PlayerRecorderNew
  /\ ReplayModuleNew
  /\ ReplayerNew
  /\ LET d == RecordedFiles(0, CacheSegments * SegmentSize, <<>>, 0, <<>>) IN
       /\ files = d.files
       /\ header = [exists |-> TRUE, tickRate |-> 1000, segmentSize |-> SegmentSize,
                    totalTicks |-> TotalTicks(d.index, <<>>)]

CacheNext ==
  \/ ReplayerPlay
  \/ ReplayerStop
  \/ \E tick \in {0, CacheSegments * SegmentSize - 1} : ReplayerSeek(tick)
  \/ \E ticks \in StepSizes : ReplayerStepForward(ticks)
  \/ \E ticks \in StepSizes : ReplayerStepBackward(ticks)
  \/ \E i \in 1..Len(tasks) : PlayInit(i)
  \/ \E i \in 1..Len(tasks) : PlayLoad(i)
  \/ \E i \in 1..Len(tasks) : SeekInit(i)
  \/ \E i \in 1..Len(tasks) : SeekLoad(i)
  \/ TimerFire
  \/ \E j \in 1..Len(orphans) : OrphanFire(j)
  \/ AdvanceClock

CacheSpec == CacheInit /\ [][CacheNext]_vars

\* the directory fs after record(tick, v) stored the payload v for a tick of
\* segment file k (the recorder stores any value)
WithPayload(fs, k, tick, v) == [fs EXCEPT ![k].data[ToStr(tick)] = v]

\* a new replayer on a recording of one full segment in which one tick has
\* the payload 0
PayloadInit ==
  /\ RecorderNew
  /\ PlayerRecorderNew
  /\ ReplayModuleNew
  /\ ReplayerNew
  /\ \E zero \in 0..(SegmentSize - 1) :
       LET d == RecordedFiles(0, SegmentSize, <<>>, 0, <<>>) IN
       /\ files = WithPayload(d.files, 0, zero, 0)
       /\ header = [exists |-> TRUE, tickRate |-> 1000, segmentSize |-> SegmentSize,
                    totalTicks |-> TotalTicks(d.index, <<>>)]

PayloadNext ==
  \/ ReplayerPlay
  \/ ReplayerStop
  \/ \E tick \in 0..(SegmentSize - 1) : ReplayerSeek(tick)
  \/ \E i \in 1..Len(tasks) : PlayInit(i)
  \/ \E i \in 1..Len(tasks) : PlayLoad(i)
  \/ \E i \in 1..Len(tasks) : SeekInit(i)
  \/ \E i \in 1..Len(tasks) : SeekLoad(i)
  \/ TimerFire
  \/ \E j \in 1..Len(orphans) : OrphanFire(j)
  \/ AdvanceClock

PayloadSpec == PayloadInit /\ [][PayloadNext]_vars

\* a new replayer on a recording of MaxLen ticks from which one file has
\* gone: the header (gone = -1) or one of the segment files; driven by play,
\* stop and seek
MissingInit ==
  /\ RecorderNew
  /\ PlayerRecorderNew
  /\ ReplayModuleNew
  /\ ReplayerNew
  /\ LET d == RecordedFiles(0, MaxLen, <<>>, 0, <<>>) IN
     \E gone \in {-1} \cup DOMAIN d.files :
       /\ files = [k \in DOMAIN d.files \ {gone} |-> d.files[k]]
       /\ header = [exists |-> gone # -1, tickRate |-> 1000,
                    segmentSize |-> SegmentSize,
                    totalTicks |-> TotalTicks(d.index, <<>>)]

MissingNext ==
  \/ ReplayerPlay
  \/ ReplayerStop
  \/ \E tick \in SeekTargets : ReplayerSeek(tick)
  \/ \E i \in 1..Len(tasks) : PlayInit(i)
  \/ \E i \in 1..Len(tasks) : PlayLoad(i)
  \/ \E i \in 1..Len(tasks) : SeekInit(i)
  \/ \E i \in 1..Len(tasks) : SeekLoad(i)
  \/ TimerFire
  \/ \E j \in 1..Len(orphans) : OrphanFire(j)
  \/ AdvanceClock

MissingSpec == MissingInit /\ [][MissingNext]_vars

\* a new replayer on a directory recorded by the Recorder, driven by play,
\* stop and seekToTime
SeekTimeNext ==
  \/ ReplayerPlay
  \/ ReplayerStop
  \/ \E time \in SeekTimes : ReplayerSeekToTime(time)
  \/ \E i \in 1..Len(tasks) : PlayInit(i)
  \/ \E i \in 1..Len(tasks) : PlayLoad(i)
  \/ \E i \in 1..Len(tasks) : SeekInit(i)
  \/ \E i \in 1..Len(tasks) : SeekLoad(i)
  \/ TimerFire
  \/ \E j \in 1..Len(orphans) : OrphanFire(j)
  \/ AdvanceClock

SeekTimeSpec == ReplayerInit /\ [][SeekTimeNext]_vars

\* the ticks of S in increasing order
RECURSIVE Ascending(_)
Ascending(S) == IF S = {} THEN <<>> ELSE <<Min(S)>> \o Ascending(S \ {Min(S)})

\* the directory a Recorder leaves after start(), record(t, ..) for the ticks
\* t of ts in order, and stop(), each call awaited
RECURSIVE RecordedTicks(_, _, _, _)
RecordedTicks(ts, seg, idx, fs) ==
  IF ts = <<>>
  THEN IF Len(seg) = 0 THEN [files |-> fs, index |-> idx]
       ELSE [files |-> WriteFile(fs, idx, SegmentData(seg)), index |-> idx + 1]
  ELSE LET seg1 == MapSet(seg, Head(ts), Head(ts) + 1) IN
       IF FlushTrigger(seg1)
       THEN RecordedTicks(Tail(ts), <<>>, idx + 1,
                          WriteFile(fs, idx, SegmentData(seg1)))
       ELSE RecordedTicks(Tail(ts), seg1, idx, fs)

\* a new replayer on a directory in which a Recorder recorded some of the
\* ticks 0..MaxLen-1 in increasing order, driven by getRangeData
RangeInit ==
  /\ RecorderNew
  /\ PlayerRecorderNew
  /\ ReplayModuleNew
  /\ ReplayerNew
  /\ \E S \in SUBSET (0..(MaxLen - 1)) :
       /\ S # {}
       /\ LET d == RecordedTicks(Ascending(S), <<>>, 0, <<>>) IN
          /\ files = d.files
          /\ header = [exists |-> TRUE, tickRate |-> 1000,
                       segmentSize |-> SegmentSize,
                       totalTicks |-> TotalTicks(d.index, <<>>)]

RangeNext ==
  \/ \E a \in RangeEnds : \E b \in RangeEnds : \E partial \in BOOLEAN :
       a <= b /\ ReplayerGetRangeData(a, b, partial)
  \/ \E i \in 1..Len(tasks) : RangeLoaded(i)

RangeSpec == RangeInit /\ [][RangeNext]_vars

\* a new replayer (cursor on tick 0) on a directory recorded by the Recorder,
\* driven by stepForward calls only
StepNext ==
  \/ \E ticks \in StepSizes : ReplayerStepForward(ticks)
  \/ \E i \in 1..Len(tasks) : SeekInit(i)
  \/ \E i \in 1..Len(tasks) : SeekLoad(i)

StepSpec == ReplayerInit /\ [][StepNext]_vars

----------------------------------------------------------------------------
(* Claims about the Recorder, checked under RecorderSpec *)

StopResolved == rev = Ev("stop", "resolved", "none")

\* the ticks stored in segment file k, as the replayer reads them back
FileTicks(k) == {parseInt(s) : s \in DOMAIN files[k].data}

\* the payload segment file k holds for tick t
FilePayload(k, t) ==
  files[k].data[CHOOSE s \in DOMAIN files[k].data : parseInt(s) = t]

\* C1: no recorded payload is lost. When stop has resolved, every tick t for
\* which a record(t, v) resolved in the session is a key of some segment file,
\* with payload v or a payload recorded later for t (payloads are numbered in
\* call order), whatever flushes were in flight when record was called.
C1_NoPayloadLost ==
  StopResolved =>
    \A t \in DOMAIN acked :
      \E k \in DOMAIN files : t \in FileTicks(k) /\ FilePayload(k, t) >= acked[t]

\* C2: every tick key stored in segment file k lies in the half-open interval
\* [k*segmentSize, (k+1)*segmentSize), the segment in which the replayer
\* looks the tick up.
C2_KeysInSegmentInterval ==
  \A k \in DOMAIN files :
    \A t \in FileTicks(k) : k * SegmentSize <= t /\ t < (k + 1) * SegmentSize

\* C3: when stop has resolved, the totalTicks written to the metadata is the
\* highest tick recorded in the session plus one (0 when nothing was recorded).
C3_TotalTicksIsHighestPlusOne ==
  StopResolved =>
    header.totalTicks = (IF recorded = {} THEN 0 ELSE Max(recorded) + 1)

\* the recorder's state machine as the claim states it
C4_Allowed(op, s) ==
  CASE op = "start" -> s = "idle"
    [] op = "pause" -> s = "recording"
    [] op = "resume" -> s = "paused"
    [] op = "record" -> s = "recording"
    [] op = "stop" -> s \in {"recording", "paused"}

\* C4: a call is accepted exactly in the state its transition starts from
\* (start in Idle, pause in Recording, resume in Paused, stop in Recording or
\* Paused, record in Recording); every other call fails with the state error
\* and leaves the state, the pending buffer and segmentIndex unchanged.
C4_InvalidCallsRejected ==
  [][rcalls' # rcalls =>
       IF C4_Allowed(rev'.op, recState)
       THEN ~(rev'.res = "rejected" /\ rev'.err = "state")
       ELSE /\ rev'.res = "rejected" /\ rev'.err = "state"
            /\ recState' = recState
            /\ currentSegment' = currentSegment
            /\ segmentIndex' = segmentIndex]_vars

\* C4 witness: a record call was rejected in Paused, after a segment was flushed
C4_Witness ==
  /\ rev = Ev("record", "rejected", "state")
  /\ recState = "paused"
  /\ segmentIndex > 0

----------------------------------------------------------------------------
(* Claims about the Replayer, checked under ReplayerSpec *)

\* the ticks that have a payload on disk
DiskTicks == UNION {FileTicks(k) : k \in DOMAIN files}

\* no call is suspended and no timer is pending: nothing more will happen
\* unless the caller calls again
Quiescent == Len(tasks) = 0 /\ PendingTimers(Rep) = 0

\* the caller's last call was an accepted play or resume, made when no
\* earlier call was still in flight
Playback ==
  /\ pev.op \in {"play", "resume"}
  /\ pev.res \in {"pending", "returned"}
  /\ ~pev.overlap

\* C5: end detection. On a recording that holds exactly the ticks 0..N-1
\* (N <= segmentSize), a play() from tick 0 that the caller does not interfere
\* with has, once nothing is pending any more, delivered the ticks 0..N-1 in
\* order, called onEnd exactly once and left the state Idle.
C5_EndDetection ==
  LET n == Cardinality(DiskTicks) IN
  (/\ pcalls = 1 /\ pev.op = "play"
   /\ n <= header.segmentSize /\ DiskTicks = 0..(n - 1)
   /\ Quiescent)
  => /\ state = "idle"
     /\ delivered = [i \in 1..n |-> i - 1]
     /\ ended.count = 1

\* C6: playback crosses segment boundaries. During a playback the caller does
\* not interfere with, onEnd is called only at a tick whose payload does not
\* exist on disk: a tick of the next segment that is on disk is loaded and
\* delivered instead.
C6_EndsOnlyOnMissingPayload ==
  (Playback /\ ended.count > 0) => ended.tick \notin DiskTicks

\* C7: between a play (or resume) and the caller's next call, the ticks
\* passed to onTick are strictly increasing.
C7_StrictlyIncreasing ==
  Playback =>
    \A i \in 1..(Len(delivered) - 1) : delivered[i] < delivered[i + 1]

\* C8: at most one tick timer is pending in every reachable state.
C8_SingleTimer == PendingTimers(Rep) <= 1

\* a play is under way: the state is Playing or a play call has not settled
PlayUnderWay ==
  state = "playing" \/ \E i \in 1..Len(tasks) : tasks[i].op = "play"

\* C9: a double start is rejected. A play() or resume() called while a play
\* is already under way fails with an error.
C9_DoubleStartRejected ==
  [][(pcalls' # pcalls /\ pev'.op \in {"play", "resume"} /\ PlayUnderWay)
       => pev'.res \in {"rejected", "threw"}]_vars

\* C10: state changes are synchronous. When play() or resume() returns to the
\* caller the state is Playing, when pause() returns it is Paused, and when
\* stop() returns it is Idle.
C10_SynchronousStateChange ==
  [][pcalls' # pcalls =>
       /\ (pev'.op \in {"play", "resume"} /\ pev'.res \in {"pending", "returned"})
            => state' = "playing"
       /\ (pev'.op = "pause" /\ pev'.res = "returned") => state' = "paused"
       /\ (pev'.op = "stop" /\ pev'.res = "returned") => state' = "idle"]_vars

\* a seek (or step) call of the caller, made when nothing else was in flight,
\* has resolved and the caller has not called again
SeekResolved ==
  /\ settled.op = "seek" /\ settled.res = "resolved" /\ settled.clean
  /\ Len(tasks) = 0

\* C11: after seek(t) resolves, getCurrentTick() is clamp(t, 0, totalTicks - 1),
\* for t below 0, in range, and at or above totalTicks.
C11_SeekClamps ==
  SeekResolved =>
    currentTick = (IF settled.arg < 0 THEN 0
                   ELSE IF settled.arg > header.totalTicks - 1
                        THEN header.totalTicks - 1
                        ELSE settled.arg)

\* C11 witness: a seek to a negative tick has resolved
C11_Witness == SeekResolved /\ pev.op = "seek" /\ settled.arg < 0 /\ currentTick = 0

\* the caller's last call was a seek made when nothing else was in flight
CleanSeek == pev.op = "seek" /\ settled.clean

\* the target of the resolved seek, clamped
SeekTarget ==
  IF settled.arg < 0 THEN 0
  ELSE IF settled.arg > header.totalTicks - 1 THEN header.totalTicks - 1
       ELSE settled.arg

C13_DriftKeepsPlaying ==
  [][(pcalls' = pcalls /\ state = "playing" /\ state' = "idle")
       => ended'.count = ended.count + 1]_vars

\* tick t was delivered on time: the time played since play(), at the current
\* speed, is the replay time of the tick
OnTime ==
  /\ lastPlayedTickMeta.defined
  /\ (now - playStartTime - pausedDuration) * currentSpeed = lastPlayedTickMeta.time * 10

\* one tick period divided by the speed, in whole milliseconds (a timer never
\* fires in less than 1 ms)
PacedDelay ==
  LET d == ((1000 \div header.tickRate) * 10) \div currentSpeed
  IN IF d < 1 THEN 1 ELSE d

\* C14: tick pacing. During a playback the caller does not interfere with,
\* when a tick has been delivered on time the timer armed for the next tick
\* is due one tick period divided by the speed later.
C14_TickPacing ==
  [][(/\ pcalls' = pcalls /\ Playback /\ settled.clean
      /\ Len(delivered') = Len(delivered) + 1
      /\ state' = "playing" /\ currentTimer'.pending
      /\ OnTime')
       => currentTimer'.due - now' = PacedDelay']_vars

\* the caller's last call was a resume, made when nothing else was in flight,
\* and the replayer is Playing again
Resumed == pev.op = "resume" /\ settled.clean /\ state = "playing"

\* C15: the replayer's clock compensates for pauses by accumulation. After a
\* resume, expectedTick() is floor((now - start - paused) * tickRate * speed
\* / 1000) with start the time of the play that began the session and paused
\* the sum of the paused intervals: the time played before the pause counts.
C15_ClockAccumulatesPauses ==
  Resumed =>
    getExpectedTick(Rep, now) =
      ((now - session.start - session.paused) * meta.tickRate * currentSpeed)
        \div (1000 * 10)

----------------------------------------------------------------------------
(* Claims about the speed of the Replayer, checked under SpeedSpec *)

\* clamp(x, 0.1, 10), in tenths
SpeedInRange(x) == IF x < 1 THEN 1 ELSE IF x > 100 THEN 100 ELSE x

----------------------------------------------------------------------------
(* Claims about the segment cache of the Replayer, checked under CacheSpec *)

\* C17: the segment cache stays within the cache window. Once no call is
\* suspended (the caller awaits each call before the next), every segment
\* index k in the replayer's cache is at most 3 away from the segment of
\* currentTick.
C17_CacheWithinWindow ==
  (meta.exists /\ Len(tasks) = 0 /\ ~pev.overlap) =>
    \A k \in DOMAIN loadedSegments :
      LET c == currentTick \div meta.segmentSize
      IN k - c <= 3 /\ c - k <= 3

----------------------------------------------------------------------------
(* Further claims about the Recorder, checked under RecorderSpec *)

\* the segment writes in flight
WritesInFlight ==
  Cardinality({i \in 1..Len(rtasks) : rtasks[i].pc = "flush" /\ ~rtasks[i].micro})

\* C18: flushes are not re-entrant. A record call made while a segment write
\* is in flight starts no second write, even when it reaches the flush
\* trigger: at most one segment write is in flight.
C18_FlushNotReentrant ==
  [][(rcalls' # rcalls /\ rev'.op = "record" /\ WritesInFlight >= 1)
       => WritesInFlight' = WritesInFlight]_vars

\* C20: stop called while a flush is in flight waits for that flush and does
\* not write the same payloads a second time. When stop has resolved, the
\* state is Idle, no segment write is still in flight, and segmentIndex is
\* the number of distinct segment files written.
C20_StopAwaitsFlush ==
  StopResolved =>
    /\ recState = "idle"
    /\ WritesInFlight = 0
    /\ segmentIndex = Cardinality(DOMAIN files)

----------------------------------------------------------------------------
(* Claims about a failing segment write, checked under IoSpec *)

\* the payloads of the flush that failed are all in the pending buffer
FailedInBuffer ==
  \A str \in DOMAIN failed.data :
    \E j \in 1..Len(currentSegment) :
      currentSegment[j].k = parseInt(str) /\ currentSegment[j].v = failed.data[str]

\* the payloads of the flush that failed (or payloads recorded later for the
\* same ticks) are all in segment files
FailedOnDisk ==
  \A str \in DOMAIN failed.data :
    \E k \in DOMAIN files :
      /\ parseInt(str) \in FileTicks(k)
      /\ FilePayload(k, parseInt(str)) >= failed.data[str]

\* C19: when the segment write of a flush fails, the error reaches the caller
\* of the record, pause or stop that triggered it, the pending buffer still
\* holds every payload it held before the flush, segmentIndex is unchanged,
\* and a later successful flush writes those payloads.
C19_FlushFailureRecoverable ==
  /\ (rev.res = "rejected" /\ rev.err = "io") =>
       /\ rev.op \in {"record", "pause", "stop"}
       /\ FailedInBuffer
       /\ segmentIndex = failed.idx
  /\ (StopResolved /\ failed.count > 0) => FailedOnDisk

\* C19 witness: a write failed, and the session was then stopped with the
\* payloads of the failed flush on disk
C19_Witness ==
  /\ StopResolved /\ failed.count > 0 /\ failed.data # <<>>
  /\ FailedOnDisk

----------------------------------------------------------------------------
(* Further claims about the Replayer, checked under ReplayerSpec *)

\* C21: once pause() or stop() has returned, neither onTick nor onEnd is
\* invoked until the caller's next call, whatever timers or segment loads
\* were pending when it was called.
C21_QuietAfterPauseOrStop ==
  (pev.op \in {"pause", "stop"} /\ pev.res = "returned")
    => (delivered = <<>> /\ ended.count = 0)

\* C23: once a tick has been delivered, getCurrentTick() is the tick of the
\* most recent onTick call, also after playback has ended on a missing
\* payload (stated for the states in which nothing is pending any more).
C23_CurrentTickIsLastDelivered ==
  (lastPlayedTickMeta.defined /\ Quiescent)
    => currentTick = lastPlayedTickMeta.tick

----------------------------------------------------------------------------
(* Claims about payload values, checked under PayloadSpec *)

\* C22: payloads are opaque. A tick whose key is present in its segment is
\* delivered whatever its payload: a payload of 0 neither ends playback
\* (onEnd is called only at a tick that is not on disk) nor suppresses the
\* echo of a seek to that tick.
C22_PayloadOpaque ==
  /\ (Playback /\ ended.count > 0) => ended.tick \notin DiskTicks
  /\ (CleanSeek /\ SeekResolved /\ SeekTarget \in DiskTicks)
       => delivered = <<SeekTarget>>


\* ------------------------------------------------------------------------
\* Further claims about the Recorder, checked under RecorderSpec
\* ------------------------------------------------------------------------

\* C24: the tick under which a payload is stored comes from the recorder's
\* clock, so it never decreases: a record call that stores a payload stores it
\* under a tick at least as high as every tick stored before it in the session.
C24_StoredTickNeverDecreases ==
  [][(nrec' = nrec + 1 /\ recorded # {})
       => \E j \in 1..Len(currentSegment') :
            /\ currentSegment'[j].v = nrec'
            /\ currentSegment'[j].k >= Max(recorded)]_vars


\* C29: tick order is checked across a pause. A record call made right after
\* a pause and its resume (nothing else in flight) stores its payload only
\* under a tick higher than every tick recorded before the pause; a call with
\* a lower or equal tick is rejected and stores nothing.
C29_OrderCheckedAcrossPause ==
  [][(/\ rev.op = "resume" /\ rev.res = "resolved"
      /\ Len(rtasks) = 0 /\ recorded # {}
      /\ nrec' = nrec + 1)
       => \E j \in 1..Len(currentSegment') :
            /\ currentSegment'[j].v = nrec'
            /\ currentSegment'[j].k > Max(recorded)]_vars


\* ------------------------------------------------------------------------
\* Claims about segment loading, checked under ReplayerSpec
\* ------------------------------------------------------------------------

\* the loads that wait for the file of segment idx to be read
ReadsInFlight(idx) ==
  {i \in 1..Len(tasks) :
     tasks[i].pc = "load" /\ ~tasks[i].micro /\ tasks[i].idx = idx}

\* C27: overlapping loads of one segment share a single file read: at no time
\* are two reads of the same segment file in flight.
C27_SingleReadPerSegment ==
  \A idx \in DOMAIN files : Cardinality(ReadsInFlight(idx)) <= 1


\* ------------------------------------------------------------------------
\* Claims about files that cannot be read, checked under MissingSpec
\* ------------------------------------------------------------------------

\* the step ends playback as at the end of the stream: Idle and one onEnd
EndedQuietly == state' = "idle" /\ ended'.count = ended.count + 1

\* a seek of the caller, made with nothing in flight, that has settled and
\* whose clamped target lies in a segment with no file
SeekNeedsMissing ==
  /\ CleanSeek /\ settled.op = "seek" /\ settled.res # "none"
  /\ header.exists
  /\ SeekTarget \div header.segmentSize \notin DOMAIN files

\* C25: a missing segment is handled by path. When the playing loop needs it
\* (the tick timer reaches a tick of the segment, or the loop's catch-up loads
\* the segment) the replayer goes Idle and calls onEnd; when an explicit seek
\* needs it, the seek is rejected.
C25_MissingSegmentByPath ==
  /\ [](SeekNeedsMissing => settled.res = "rejected")
  /\ [][/\ (TimerFire /\ (currentTick + 1) \div header.segmentSize \notin DOMAIN files)
             => EndedQuietly
        /\ \A i \in 1..Len(tasks) :
             (/\ SeekLoad(i) /\ tasks[i].internal
              /\ ~tasks[i].micro /\ tasks[i].idx \notin DOMAIN files)
               => EndedQuietly]_vars

\* the caller's play(), made with nothing in flight, was rejected
PlayFailed == settled.op = "play" /\ settled.res = "rejected" /\ settled.clean

\* C30: a failed play leaves no trace: when play() has been rejected (header or
\* starting segment unreadable), the state is the one the replayer had when
\* play() was called.
C30_FailedPlayKeepsState == PlayFailed => state = settled.from


\* ------------------------------------------------------------------------
\* Claims about seekToTime, checked under SeekTimeSpec
\* ------------------------------------------------------------------------

\* C26: seekToTime(ms) has exactly the effect of seek(floor(ms * tickRate /
\* 1000)), tickRate being the recording's, in every state (every seek succeeds
\* on these recordings), a new replayer included: the call is accepted and
\* leaves the replayer as that seek call leaves it.
C26_SeekToTimeIsSeek ==
  [][\A time \in SeekTimes :
       ReplayerSeekToTime(time)
         => /\ pev'.res = "pending"
            /\ SetRep(seekCall(Window(Rep),
                               (time * header.tickRate) \div 1000, FALSE))]_vars


\* ------------------------------------------------------------------------
\* Claims about the range query, checked under RangeSpec
\* ------------------------------------------------------------------------

\* the caller's getRangeData, made with nothing in flight, has resolved
RangeResolved ==
  /\ settled.op = "getRangeData" /\ settled.res = "resolved" /\ settled.clean

\* an end of the queried range, clamped to [0, totalTicks - 1]
RangeEnd(x) ==
  IF x < 0 THEN 0
  ELSE IF x > header.totalTicks - 1 THEN header.totalTicks - 1 ELSE x

\* the ticks of the queried range that have a payload on disk
RangeWithPayload ==
  {t \in RangeEnd(settled.arg.a)..RangeEnd(settled.arg.b) : t \in DiskTicks}

\* the payload on disk of tick t
DiskPayload(t) ==
  FilePayload(CHOOSE k \in DOMAIN files : t \in FileTicks(k), t)

\* C28: getRangeData over [a, b] returns, in increasing tick order, one entry
\* {data, meta} for every tick of the clamped range that has a payload; with
\* includePartialTicks it also returns an entry with data = null for every
\* other tick of the range (b - a + 1 entries in all), without it only the
\* ticks that have a payload.
C28_RangeData ==
  RangeResolved =>
    LET lo == RangeEnd(settled.arg.a)
        hi == RangeEnd(settled.arg.b)
        n == Len(rangeData)
    IN /\ \A j \in 1..n : \A k \in 1..n :
            j < k => rangeData[j].meta.tick < rangeData[k].meta.tick
       /\ \A t \in RangeWithPayload : \E j \in 1..n :
            /\ rangeData[j].meta.tick = t
            /\ ~rangeData[j].null
            /\ rangeData[j].data = DiskPayload(t)
       /\ settled.arg.partial =>
            /\ n = hi - lo + 1
            /\ \A t \in (lo..hi) \ RangeWithPayload : \E j \in 1..n :
                 rangeData[j].meta.tick = t /\ rangeData[j].null
       /\ ~settled.arg.partial =>
            /\ {rangeData[j].meta.tick : j \in 1..n} = RangeWithPayload
            /\ \A j \in 1..n : ~rangeData[j].null


\* ------------------------------------------------------------------------
\* Claims about step calls, checked under StepSpec
\* ------------------------------------------------------------------------

\* C31: step calls compose. When the k stepForward(1) calls made so far on a
\* new replayer (cursor 0) have all run to their end, currentTick is
\* min(k, totalTicks - 1), whether or not the caller waited between them.
C31_StepsCompose ==
  (pcalls > 0 /\ Len(tasks) = 0)
    => currentTick = Min({pcalls, header.totalTicks - 1})


\* ------------------------------------------------------------------------
\* Claims about segment indices, checked under RecorderSpec
\* ------------------------------------------------------------------------

\* the flushes whose write to segment file k is in flight
WritersOf(k) ==
  {i \in 1..Len(rtasks) :
     rtasks[i].pc = "flush" /\ ~rtasks[i].micro /\ rtasks[i].idx = k}

\* C32: the segment indices written in a session are 0, 1, 2, ... without gap
\* and each by one flush: no two flushes in flight write the same index, and
\* every index below segmentIndex names a file that has been written.
C32_IndicesDenseAndUnique ==
  /\ \A i \in 1..Len(rtasks) : Cardinality(WritersOf(rtasks[i].idx)) <= 1
  /\ \A k \in 0..(segmentIndex - 1) : k \in DOMAIN files


\* ------------------------------------------------------------------------
\* Claims about discard, checked under DiscardSpec
\* ------------------------------------------------------------------------

\* the caller's last call was a discard and it has resolved
DiscardResolved == rev = Ev("discard", "resolved", "none")

\* C33: after discard() resolves the recorder is Idle and the directory
\* holds no file of this recorder, however the stop that discard starts
\* interleaves with the removal; and a discard called in state Idle on an
\* existing directory starts no removal of it.
C33_DiscardLeavesNothing ==
  /\ [](DiscardResolved
          => (recState = "idle" /\ files = <<>> /\ ~header.exists))
  /\ [][(RecorderDiscard /\ recState = "idle" /\ DirExists)
          => rtasks' = rtasks]_vars


\* ------------------------------------------------------------------------
\* Claims about Replayer.stop, checked under ReplayerSpec
\* ------------------------------------------------------------------------

\* the fields stop() must leave alone
StopFrame ==
  <<currentTick, currentSpeed, playStartTime, pausedDuration, pauseStartTime,
    lastPlayedTickMeta, loadedSegments, meta>>

\* C34: stop() changes only the state (to Idle) and the timer (cancelled) and
\* never fails; in state Idle with no timer it changes nothing; and a play()
\* made with nothing in flight (so also one after stop) starts on the tick
\* the cursor is on.
C34_StopChangesOnlyStateAndTimer ==
  [][/\ ReplayerStop =>
          /\ pev'.res = "returned"
          /\ state' = "idle"
          /\ ~currentTimer'.set /\ ~currentTimer'.pending
          /\ StopFrame' = StopFrame
          /\ (state = "idle" /\ ~currentTimer.set) => currentTimer' = currentTimer
     /\ \A i \in 1..Len(tasks) :
          (/\ PlayLoad(i) /\ settled.clean /\ pev.op = "play" /\ ~pev.overlap
           /\ delivered' # <<>>)
            => delivered'[1] = currentTick]_vars

\* C34 witness: stop() was called after the cursor had moved on, and left
\* the cursor, the last tick meta and the cache in place and no timer
C34_Witness ==
  /\ pev.op = "stop" /\ pev.res = "returned" /\ state = "idle"
  /\ currentTick > 0 /\ lastPlayedTickMeta.defined
  /\ lastPlayedTickMeta.tick = currentTick
  /\ loadedSegments # <<>>
  /\ ~currentTimer.set

\* ------------------------------------------------------------------------
\* utils/recorder.ts: the PlayerRecorder event log
\* ------------------------------------------------------------------------

\* the queue with entry e inserted behind the entries whose timestamp is not
\* larger: one step of the stable sort by timestamp
InsertByTimestamp(q, e) ==
  LET before == SelectSeq(q, LAMBDA x : x.timestamp <= e.timestamp)
      after == SelectSeq(q, LAMBDA x : x.timestamp > e.timestamp)
  IN  before \o <<e>> \o after

RECURSIVE SortByTimestamp(_)
\* this.queue.sort((a, b) => a.timestamp - b.timestamp)
SortByTimestamp(q) ==
  IF q = <<>> THEN <<>>
  ELSE InsertByTimestamp(SortByTimestamp(SubSeq(q, 1, Len(q) - 1)), q[Len(q)])

\* the event ids of a queue
EventIds(q) == {q[i].id : i \in 1..Len(q)}

\* createNewFileStream(): this.stream is a new write stream
createNewFileStream(r) == [r EXCEPT !.stream = "open"]

\* startNewFile(): a stream that exists is ended and the new one is created in
\* the callback of end(); with no stream the new one is created at once
startNewFile(r) ==
  IF r.stream # "null"
    THEN [r EXCEPT !.stream = "ending", !.cbs = Append(@, "create")]
    ELSE createNewFileStream(r)

\* setTimeout whose id is assigned to this.flushTimerId: a timer the field
\* referred to and that has not fired stays pending without a reference
scheduleFlush(r) ==
  [r EXCEPT !.flushTimer = [pending |-> TRUE, due |-> r.now + r.flushInterval],
            !.lostTimers = IF r.flushTimer.pending
                             THEN Append(@, [kind |-> "flush", due |-> r.flushTimer.due])
                             ELSE @]

\* scheduleNewFile(): nothing when newFileInterval is 0
scheduleNewFile(r) ==
  IF r.newFileInterval = 0 THEN r
  ELSE [r EXCEPT !.newFileTimer = [pending |-> TRUE, due |-> r.now + r.newFileInterval],
                 !.lostTimers = IF r.newFileTimer.pending
                                  THEN Append(@, [kind |-> "newFile", due |-> r.newFileTimer.due])
                                  ELSE @]

\* what runs when the promise of flush() is fulfilled: the .then of the flush
\* timer, the .then of resume, or nothing (stop does not wait for its flush)
afterFlush(r, then) ==
  CASE then = "flushTimer" ->
         IF Len(r.queue) > 0 THEN scheduleFlush(r) ELSE r
    [] then = "flushResume" ->
         scheduleFlush(scheduleNewFile(
           IF r.nextFileTimestamp > 0 /\ r.now >= r.nextFileTimestamp
             THEN startNewFile([r EXCEPT !.nextFileTimestamp = 0])
             ELSE r))
    [] OTHER -> r

\* flush(), called by the caller named then. With a stream and a non-empty
\* queue the sorted queue is written to the stream, the queue is emptied and
\* the stream is ended; the promise is fulfilled in the callback of end(). A
\* write to a stream that end() was already called on does not reach the file.
\* Otherwise the promise is fulfilled at once.
flush(r, then) ==
  IF r.stream # "null" /\ Len(r.queue) > 0
    THEN [r EXCEPT !.log = IF r.stream = "open"
                             THEN @ \cup EventIds(SortByTimestamp(r.queue))
                             ELSE @,
                   !.queue = <<>>,
                   !.stream = "ending",
                   !.cbs = Append(@, then)]
    ELSE afterFlush(r, then)

\* clearTimeout on both timer fields, as pause() and stop() do
clearPrTimers(r) == [r EXCEPT !.flushTimer = NoPrTimer, !.newFileTimer = NoPrTimer]

\* start(): nothing while recording; else the first file and both timers
PrStart ==
  /\ pr.calls < MaxPrCalls
  /\ pr' = LET r == [pr EXCEPT !.calls = @ + 1]
           IN  IF pr.isRecording THEN r
               ELSE scheduleFlush(scheduleNewFile(startNewFile(
                      [r EXCEPT !.isRecording = TRUE])))
  /\ UNCHANGED <<recVars, dirVars, repVars, vr>>

\* recordEvent(event): queued with the current time when recording and not paused
PrRecordEvent ==
  /\ pr.nev < MaxEvents
  /\ pr' = LET e == pr.nev + 1
               r == [pr EXCEPT !.nev = e]
           IN  IF pr.isRecording /\ ~pr.isPaused
                 THEN [r EXCEPT !.queue = Append(@, [id |-> e, timestamp |-> pr.now]),
                                !.accepted = @ \cup {e}]
                 ELSE r
  /\ UNCHANGED <<recVars, dirVars, repVars, vr>>

\* pause(): nothing unless recording and not paused; else both timers are
\* cleared and the time of the next file is noted
PrPause ==
  /\ pr.calls < MaxPrCalls
  /\ pr' = LET r == [pr EXCEPT !.calls = @ + 1]
           IN  IF ~pr.isRecording \/ pr.isPaused THEN r
               ELSE [clearPrTimers(r) EXCEPT
                       !.isPaused = TRUE,
                       !.resumed = FALSE,
                       !.nextFileTimestamp = IF pr.newFileInterval > 0
                                               THEN pr.now + pr.newFileInterval
                                               ELSE @]
  /\ UNCHANGED <<recVars, dirVars, repVars, vr>>

\* resume(): returns at once when isRecording_ is true or isPaused_ is false;
\* else isPaused_ is reset and the timers are scheduled after a flush
PrResume ==
  /\ pr.calls < MaxPrCalls
  /\ pr' = LET r == [pr EXCEPT !.calls = @ + 1,
                               !.resumed = pr.isRecording /\ pr.isPaused]
           IN  IF pr.isRecording \/ ~pr.isPaused THEN r
               ELSE flush([r EXCEPT !.isPaused = FALSE], "flushResume")
  /\ UNCHANGED <<recVars, dirVars, repVars, vr>>

\* stop(): nothing unless recording; else the flags and timers are reset and
\* flush() is called without waiting for it
PrStop ==
  /\ pr.calls < MaxPrCalls
  /\ pr' = LET r == [pr EXCEPT !.calls = @ + 1]
           IN  IF ~pr.isRecording THEN r
               ELSE flush([clearPrTimers(r) EXCEPT
                             !.isRecording = FALSE,
                             !.isPaused = FALSE,
                             !.resumed = FALSE,
                             !.nextFileTimestamp = 0],
                          "flushStop")
  /\ UNCHANGED <<recVars, dirVars, repVars, vr>>

\* the callback of the flush timer: flush().then(reschedule if the queue is
\* not empty)
PrFlushTimerFires ==
  /\ pr.flushTimer.pending
  /\ pr.now >= pr.flushTimer.due
  /\ pr' = flush([pr EXCEPT !.flushTimer = NoPrTimer], "flushTimer")
  /\ UNCHANGED <<recVars, dirVars, repVars, vr>>

\* the callback of the new-file timer: startNewFile(); scheduleNewFile()
PrNewFileTimerFires ==
  /\ pr.newFileTimer.pending
  /\ pr.now >= pr.newFileTimer.due
  /\ pr' = scheduleNewFile(startNewFile([pr EXCEPT !.newFileTimer = NoPrTimer]))
  /\ UNCHANGED <<recVars, dirVars, repVars, vr>>

\* a timer that no field refers to fires: the same callbacks
PrLostTimerFires(i) ==
  /\ pr.now >= pr.lostTimers[i].due
  /\ pr' = LET r == [pr EXCEPT !.lostTimers = RemoveAt(@, i)]
           IN  IF pr.lostTimers[i].kind = "flush"
                 THEN flush(r, "flushTimer")
                 ELSE scheduleNewFile(startNewFile(r))
  /\ UNCHANGED <<recVars, dirVars, repVars, vr>>

RECURSIVE RunEndCallbacks(_, _)
\* the callbacks of end() run in the order they were passed: the one of
\* startNewFile creates the next stream, the one of flush sets this.stream = null
RunEndCallbacks(r, cbs) ==
  IF cbs = <<>> THEN r
  ELSE RunEndCallbacks(IF Head(cbs) = "create" THEN createNewFileStream(r)
                       ELSE [r EXCEPT !.stream = "null"],
                       Tail(cbs))

RECURSIVE RunFlushThens(_, _)
\* after the callbacks, the continuations of the flush promises they resolved
RunFlushThens(r, cbs) ==
  IF cbs = <<>> THEN r
  ELSE RunFlushThens(IF Head(cbs) = "create" THEN r ELSE afterFlush(r, Head(cbs)),
                     Tail(cbs))

\* the stream that end() was called on has finished
PrStreamFinished ==
  /\ pr.stream = "ending"
  /\ pr' = RunFlushThens(RunEndCallbacks([pr EXCEPT !.cbs = <<>>], pr.cbs), pr.cbs)
  /\ UNCHANGED <<recVars, dirVars, repVars, vr>>

\* the pending timers of the PlayerRecorder that are due
PrTimerDue ==
  \/ pr.flushTimer.pending /\ pr.now >= pr.flushTimer.due
  \/ pr.newFileTimer.pending /\ pr.now >= pr.newFileTimer.due
  \/ \E i \in 1..Len(pr.lostTimers) : pr.now >= pr.lostTimers[i].due

\* time passes when no timer is due
PrTick ==
  /\ pr.now < MaxPrTime
  /\ ~PrTimerDue
  /\ pr' = [pr EXCEPT !.now = @ + 1]
  /\ UNCHANGED <<recVars, dirVars, repVars, vr>>

\* a PlayerRecorder built with valid options; nothing else is used
PlayerRecorderInit ==
  /\ RecorderNew
  /\ ReplayModuleNew
  /\ ReplayerNew
  /\ files = <<>>
  /\ header = NoHeader
  /\ \E f \in FlushIntervals, n \in NewFileIntervals :
       /\ validateIntervals(f, n)
       /\ pr = PlayerRecorderWith(f, n)

PlayerRecorderNext ==
  \/ PrStart
  \/ PrRecordEvent
  \/ PrPause
  \/ PrResume
  \/ PrStop
  \/ PrFlushTimerFires
  \/ PrNewFileTimerFires
  \/ \E i \in 1..Len(pr.lostTimers) : PrLostTimerFires(i)
  \/ PrStreamFinished
  \/ PrTick

PlayerRecorderSpec == PlayerRecorderInit /\ [][PlayerRecorderNext]_vars

\* ------------------------------------------------------------------------
\* Claims about the PlayerRecorder, checked under PlayerRecorderSpec
\* ------------------------------------------------------------------------

\* C35: no accepted event is lost: once the recorder is stopped and no stream
\* is still finishing, so that the flush of stop() has completed, every event
\* recordEvent queued has been written to a log file.
C35_NoEventLost ==
  (~pr.isRecording /\ pr.stream # "ending") => pr.accepted \subseteq pr.log

\* the timers of a resumed recording are scheduled, or will be when the flush
\* resume() started has completed
ResumeScheduled ==
  \/ \E i \in 1..Len(pr.cbs) : pr.cbs[i] = "flushResume"
  \/ /\ pr.flushTimer.pending
     /\ (pr.newFileInterval = 0 \/ pr.newFileTimer.pending)

\* C36: resume() on a paused recording resumes it: after the call isPaused()
\* is false and the flush timer and the new-file timer are scheduled again,
\* and a recordEvent made after it queues its event.
C36_ResumeResumes ==
  /\ [][(PrResume /\ pr.isRecording /\ pr.isPaused)
          => (~pr'.isPaused /\ ResumeScheduled')]_vars
  /\ [][(PrRecordEvent /\ pr.resumed) => Len(pr'.queue) = Len(pr.queue) + 1]_vars

\* ------------------------------------------------------------------------
\* replay.ts: recording a player's vehicle
\* ------------------------------------------------------------------------

\* Map.prototype.delete
MapDelete(m, k) == SelectSeq(m, LAMBDA e : e.k # k)

\* Map.prototype.has
MapHas(m, k) == k \in MapKeys(m)

\* Map.prototype.get: undefined for a key that is not in the map
MapGet(m, k) ==
  IF MapHas(m, k) THEN m[CHOOSE i \in 1..Len(m) : m[i].k = k].v ELSE "undefined"

\* the key of the first entry of m whose value is player, NoVeh (null) if none
FirstVehOf(m, player) ==
  IF \E i \in 1..Len(m) : m[i].v = player
    THEN m[Min({i \in 1..Len(m) : m[i].v = player})].k
    ELSE NoVeh

getPlayerRecordingVeh(m, player) == FirstVehOf(m.recordingVehPlayer, player)

getPlayerPauseVeh(m, player) == FirstVehOf(m.pauseVehPlayer, player)

isPlayerRecording(m, player) == getPlayerRecordingVeh(m, player) # NoVeh

isPlayerPauseRecording(m, player) == getPlayerPauseVeh(m, player) # NoVeh

\* startRecordVehData(player, fileName) up to its await: it throws unless the
\* player drives a vehicle that is not in recordingVehPlayer, and else waits
\* for writeRecordConfig
VehStartRecordVehData(player) ==
  /\ Len(vr.starts) < MaxStarts
  /\ vr' = LET veh == vr.seat[player].veh
           IN  IF \/ veh = NoVeh
                  \/ ~vr.seat[player].driver
                  \/ MapHas(vr.recordingVehPlayer, veh)
                 THEN [vr EXCEPT !.last = VehEv("start", player, "thrown")]
                 ELSE [vr EXCEPT !.starts = Append(@, [player |-> player, veh |-> veh]),
                                 !.last = VehEv("start", player, "pending")]
  /\ UNCHANGED <<recVars, dirVars, repVars, pr>>

\* writeRecordConfig has resolved: the vehicle the player drove when the call
\* was made is entered into recordingVehFile and recordingVehPlayer
VehRecordConfigWritten(i) ==
  /\ vr' = LET c == vr.starts[i]
           IN  [vr EXCEPT
                  !.starts = RemoveAt(@, i),
                  !.recordingVehFile = MapSet(@, c.veh, c.player),
                  !.recordingVehPlayer = MapSet(@, c.veh, c.player),
                  !.last = IF @ = VehEv("start", c.player, "pending")
                             THEN VehEv("start", c.player, "returned")
                             ELSE @]
  /\ UNCHANGED <<recVars, dirVars, repVars, pr>>

\* stopRecordVehData(player): throws when the player is in neither map; else
\* the first entry of recordingVehPlayer that holds the player is deleted,
\* with the entries of its vehicle in the other maps
VehStopRecordVehData(player) ==
  /\ vr' = IF ~isPlayerRecording(vr, player) /\ ~isPlayerPauseRecording(vr, player)
             THEN [vr EXCEPT !.last = VehEv("stop", player, "thrown")]
             ELSE LET veh == getPlayerRecordingVeh(vr, player)
                      m == [vr EXCEPT !.last = VehEv("stop", player, "returned")]
                  IN  IF veh = NoVeh THEN m
                      ELSE [m EXCEPT
                              !.recordingVehPlayer = MapDelete(@, veh),
                              !.recordingVehFile = MapDelete(@, veh),
                              !.recordOrPauseAdditional = MapDelete(@, veh),
                              !.pauseVehPlayer = MapDelete(@, veh),
                              !.pauseVehFile = MapDelete(@, veh)]
  /\ UNCHANGED <<recVars, dirVars, repVars, pr>>

\* onStateChange, old state DRIVER and new state not DRIVER: the entries of
\* the vehicle the player records move to the pause maps
PauseRecordVeh(m, player) ==
  LET veh == getPlayerRecordingVeh(m, player)
  IN  IF veh = NoVeh THEN m
      ELSE [m EXCEPT
              !.pauseVehPlayer = MapSet(@, veh, MapGet(m.recordingVehPlayer, veh)),
              !.pauseVehFile = MapSet(@, veh, MapGet(m.recordingVehFile, veh)),
              !.recordingVehPlayer = MapDelete(@, veh),
              !.recordingVehFile = MapDelete(@, veh)]

\* onStateChange, new state DRIVER: the entries of the vehicle the player's
\* recording was paused on move to the recording maps under the id of the
\* vehicle the player drives now
ResumeRecordVeh(m, player) ==
  LET oldVeh == getPlayerPauseVeh(m, player)
      currentVeh == m.seat[player].veh
  IN  IF oldVeh = NoVeh THEN m
      ELSE [m EXCEPT
              !.recordingVehPlayer = MapSet(@, currentVeh, MapGet(m.pauseVehPlayer, oldVeh)),
              !.recordingVehFile = MapSet(@, currentVeh, MapGet(m.pauseVehFile, oldVeh)),
              !.pauseVehPlayer = MapDelete(@, oldVeh),
              !.pauseVehFile = MapDelete(@, oldVeh)]

\* a player on foot enters vehicle veh, as its driver when it has none or as
\* a passenger; onStateChange runs with the new state
VehEnter(player, veh, driver) ==
  /\ vr.seat[player] = OnFoot
  /\ driver => \A q \in Players : ~(vr.seat[q].veh = veh /\ vr.seat[q].driver)
  /\ vr' = LET m == [vr EXCEPT !.seat[player] = [veh |-> veh, driver |-> driver]]
           IN  IF driver THEN ResumeRecordVeh(m, player) ELSE m
  /\ UNCHANGED <<recVars, dirVars, repVars, pr>>

\* a player leaves the vehicle; onStateChange runs with the old state
VehLeave(player) ==
  /\ vr.seat[player] # OnFoot
  /\ vr' = LET m == [vr EXCEPT !.seat[player] = OnFoot]
           IN  IF vr.seat[player].driver THEN PauseRecordVeh(m, player) ELSE m
  /\ UNCHANGED <<recVars, dirVars, repVars, pr>>

\* the onWriteAdditional handler: the additional data is stored under the
\* vehicle the player records, if there is one
onWriteAdditional(m, player) ==
  LET veh == getPlayerRecordingVeh(m, player)
  IN  IF veh = NoVeh THEN m
      ELSE [m EXCEPT !.recordOrPauseAdditional = MapSet(@, veh, player)]

\* writeAdditionalData(player, additional): throws when isPlayerRecording is
\* false or isPlayerPauseRecording is false, else triggers the event
VehWriteAdditionalData(player) ==
  /\ vr' = IF ~isPlayerRecording(vr, player) \/ ~isPlayerPauseRecording(vr, player)
             THEN [vr EXCEPT !.last = VehEv("writeAdditional", player, "thrown")]
             ELSE onWriteAdditional(
                    [vr EXCEPT !.last = VehEv("writeAdditional", player, "returned")],
                    player)
  /\ UNCHANGED <<recVars, dirVars, repVars, pr>>

\* the module with no recording; nothing else is used
VehRecordInit ==
  /\ RecorderNew
  /\ PlayerRecorderNew
  /\ ReplayModuleNew
  /\ ReplayerNew
  /\ files = <<>>
  /\ header = NoHeader

VehRecordNext ==
  \/ \E player \in Players : VehStartRecordVehData(player)
  \/ \E i \in 1..Len(vr.starts) : VehRecordConfigWritten(i)
  \/ \E player \in Players : VehStopRecordVehData(player)
  \/ \E player \in Players, veh \in VehicleIds, driver \in BOOLEAN :
       VehEnter(player, veh, driver)
  \/ \E player \in Players : VehLeave(player)
  \/ \E player \in Players : VehWriteAdditionalData(player)

VehRecordSpec == VehRecordInit /\ [][VehRecordNext]_vars

\* ------------------------------------------------------------------------
\* Claims about the vehicle recording maps, checked under VehRecordSpec
\* ------------------------------------------------------------------------

\* C37: after stopRecordVehData(player) returns without throwing the player
\* is neither recording nor pause-recording, also when the recording was in
\* the pause maps because the player had left the vehicle.
C37_StopEndsRecording ==
  [][\A player \in Players :
       (VehStopRecordVehData(player) /\ vr'.last = VehEv("stop", player, "returned"))
         => (~isPlayerRecording(vr', player) /\ ~isPlayerPauseRecording(vr', player))]_vars

\* C38: writeAdditionalData(player) throws exactly when the player is neither
\* recording nor pause-recording and returns otherwise, and no player is in
\* the recording map and in the pause map at the same time.
C38_WriteAdditionalWhenRecording ==
  /\ [](\A player \in Players :
          ~(isPlayerRecording(vr, player) /\ isPlayerPauseRecording(vr, player)))
  /\ [][\A player \in Players :
          (VehWriteAdditionalData(player) /\ vr'.last.op = "writeAdditional"
             /\ vr'.last.player = player)
            => (vr'.last.res = "thrown"
                  <=> (~isPlayerRecording(vr, player)
                         /\ ~isPlayerPauseRecording(vr, player)))]_vars
====
